---- MODULE Spec2Model ----
(***************************************************************************)
(* One-night werewolf bot (src/bot.py, src/game/logic.py,                  *)
(* src/game/models.py, src/game/llm_player.py).                            *)
(*                                                                         *)
(* The module holds the game-logic engine as operators over a GameState    *)
(* record, and specifications over the same variables:                     *)
(*   LogicSpec  the functions of game/logic.py applied, in the order the   *)
(*              bot applies them, to every input of a bounded set;         *)
(*   Spec       the bot's cooperative tasks (command handlers, the night   *)
(*              orchestration, the AI voting task, end-of-round            *)
(*              resolution), one step per run between two suspensions;     *)
(*   FairSpec, DaySpec, LobbySpec, RosterSpec, FrozenSpec  parts of Spec   *)
(*              with other bounds, inputs, commands or fairness;           *)
(*   VoteSpec, PersonaSpec, RoleSpec, RevengeSpec, ApiSpec, RateSpec       *)
(*              llm_vote, add_bot's personas, the role editor, the         *)
(*              Hunter's revenge, call_grok_api and its rate limit;        *)
(*   SpeechSpec, EditorSpec  the speech coroutines with the speaker        *)
(*              cursor, and the role editor with begin.                    *)
(***************************************************************************)
EXTENDS Integers, Sequences, FiniteSets, Bags, TLC

VARIABLES
    objs,       \* the GameState objects created so far, in creation order
    registry,   \* games[channel]: index into objs, or NoGame
    tasks,      \* the suspended coroutines of the event loop, as a bag
    begun,      \* Spec: the begin commands accepted so far
    last,       \* LogicSpec: the last call of a game/logic.py function
    llm         \* the globals of game/llm_player.py, the clock they read and
                \* the speaker cursor of bot.py

vars == <<objs, registry, tasks, begun, last, llm>>

-----------------------------------------------------------------------------
(* Bounds of the model *)

\* role lists handed to setup_game are up to MaxOver cards too long
MaxOver == 1
\* Spec: the users who issue commands are 1..MaxHumans
MaxHumans == 2
\* Spec: add_bot enrolls at most MaxBots AI players in a roster
MaxBots == 1
\* Spec: GameState objects created by start
MaxGames == 1
\* Spec: begin commands accepted in a run
MaxBegins == 2
\* Spec: arrangements random.shuffle produces
MaxShuffles == 1
\* Spec: the users who issue start are 1..MaxHosts
MaxHosts == 1
\* Spec: the vote command names a user in 1..MaxVoteTargets or passes "-1"
MaxVoteTargets == 1
\* LobbySpec: GameState objects created by start
MaxLobbyGames == 2
\* RosterSpec: remove_bot is issued with a count in 0..MaxRemove
MaxRemove == 1
\* DaySpec: messages a GameState's discussion_history holds
MaxHistory == 1
\* FairSpec: arrangements random.shuffle produces
MaxFairShuffles == 2
\* ApiSpec: calls of call_grok_api in a run
MaxCalls == 2
\* ApiSpec: call_grok_api is called with max_retries in 1..MaxRetries
MaxRetries == 3
\* PersonaSpec: outcomes of one random.choice, the first of its list
MaxChoices == 1
\* PersonaSpec: add_bot is issued with a count in MIN_ADD..MaxPersonaAdd
MaxPersonaAdd == 2
\* PersonaSpec: add_bot and remove_bot commands in a run
MaxCommands == 8
\* PersonaSpec: remove_bot is issued with a count in 0..MaxPersonaRemove
MaxPersonaRemove == 1
\* RoleSpec: RoleConfigView objects created by roles
MaxViews == 1
\* RoleSpec: the composition being edited holds at most MaxConfig cards
MaxConfig == 6
\* RoleSpec: presses of the editor's controls in a run
MaxPresses == 4
\* RateSpec: calls of call_grok_api in a run
MaxRateCalls == 3
\* RateSpec: the clock runs up to MaxTime seconds
MaxTime == 4
\* SpeechSpec: the AI players of the discussion
MaxSpeakers == 2
\* SpeechSpec: runs of the speech coroutines in a discussion
MaxSpeechSteps == 6

-----------------------------------------------------------------------------
(* config.py *)

MIN_PLAYERS == 3
MAX_PLAYERS == 8
CENTER_CARD_COUNT == 2

\* ROLE_CONFIG.get(player_count): the default composition, known for three
\* players; <<"None">> stands for None
ROLE_CONFIG(n) ==
    IF n = 3 THEN <<"WEREWOLF", "VILLAGER", "VILLAGER", "SEER", "THIEF">>
    ELSE <<"None">>

-----------------------------------------------------------------------------
(* game/models.py *)

Roles == {"VILLAGER", "WEREWOLF", "ALPHA_WOLF", "SEER", "THIEF",
          "HUNTER", "TANNER", "MADMAN", "MAYOR"}

Teams == {"VILLAGE", "WEREWOLF", "TANNER"}

\* Optional[int] = None (vote_target_id, target_player_id); no user id is 0
None == 0
\* Optional[Role] = None, Optional[NightAction] = None
NoRole == "None"
\* the "peace village" vote target
PEACE == -1
\* GameState.custom_role_config = None
NoConfig == <<"None">>

NoAction == [action_type |-> "None", target_player_id |-> None]

\* Player(user_id, username, initial_role=VILLAGER, current_role=VILLAGER)
NewPlayer ==
    [username |-> "", initial_role |-> "VILLAGER", current_role |-> "VILLAGER",
     night_action |-> NoAction, has_acted |-> FALSE, vote_target_id |-> None]

\* the display name add_player is handed for user_id
display_name(user_id) == ToString(user_id)

\* GameState(channel_id, host_id): players is an insertion-ordered dict,
\* held as its key order (order) and its values (players)
NewGameState(host_id) ==
    [host_id |-> host_id, phase |-> "WAITING", order |-> <<>>,
     players |-> [u \in {} |-> NewPlayer], center_cards |-> <<>>,
     custom_role_config |-> NoConfig, discussion_history |-> <<>>,
     night_action_order |-> <<>>,
     night_action_index |-> 0, executed_player_ids |-> <<>>,
     winners |-> <<>>]

\* API_CALL_INTERVAL = 1.0, in seconds
API_CALL_INTERVAL == 1

\* game/llm_player.py as imported: _last_api_call_time = 0 and
\* _used_character_indices = set(); time is time.time() in seconds, at
\* import more than API_CALL_INTERVAL after 0; posts are the times at which
\* client.post was called.  bot.py as imported: _next_llm_speaker_index = {},
\* read with .get(channel_id, 0)
NewLlm ==
    [time |-> API_CALL_INTERVAL, last_api_call_time |-> 0, posts |-> <<>>,
     used_character_indices |-> {}, next_llm_speaker_index |-> 0]

PlayerIds(g) == DOMAIN g.players

player_count(g) == Len(g.order)

\* GameState.add_player: the state after, unchanged when already enrolled
add_player(g, user_id) ==
    IF user_id \in PlayerIds(g) THEN g
    ELSE [g EXCEPT !.order = Append(@, user_id),
                   !.players = [u \in PlayerIds(g) \cup {user_id} |->
                                  IF u = user_id
                                  THEN [NewPlayer EXCEPT !.username =
                                            display_name(user_id)]
                                  ELSE g.players[u]]]

\* GameState.remove_player
remove_player(g, user_id) ==
    IF user_id \notin PlayerIds(g) THEN g
    ELSE [g EXCEPT !.order = SelectSeq(@, LAMBDA u : u # user_id),
                   !.players = [u \in PlayerIds(g) \ {user_id} |->
                                  g.players[u]]]

\* GameState.get_players_by_role, as the list of identifiers in roster order
get_players_by_role(g, role, use_current) ==
    SelectSeq(g.order, LAMBDA u :
        IF use_current THEN g.players[u].current_role = role
        ELSE g.players[u].initial_role = role)

all_voted(g) == \A u \in PlayerIds(g) : g.players[u].vote_target_id # None

voted_count(g) ==
    Cardinality({u \in PlayerIds(g) : g.players[u].vote_target_id # None})

\* Player.is_llm: set by add_bot, whose identifiers are the negative ones
is_llm(user_id) == user_id < 0

get_llm_players(g) == SelectSeq(g.order, is_llm)

-----------------------------------------------------------------------------
(* game/logic.py *)

NIGHT_ACTION_ORDER == <<"WEREWOLF", "SEER", "THIEF">>

\* random.shuffle: every arrangement of the list
shuffle(role_list) ==
    LET n == Len(role_list)
        perms == {f \in [1..n -> 1..n] : \A i, j \in 1..n : i # j => f[i] # f[j]}
    IN {[i \in 1..n |-> role_list[f[i]]] : f \in perms}

\* the roles dealt by setup_game: players in roster order, then the center
deal(g, shuffled_roles) ==
    [g EXCEPT
        !.players = [u \in PlayerIds(g) |->
            LET i == CHOOSE k \in 1..Len(g.order) : g.order[k] = u
            IN [g.players[u] EXCEPT !.initial_role = shuffled_roles[i],
                                    !.current_role = shuffled_roles[i]]],
        !.center_cards = SubSeq(shuffled_roles, player_count(g) + 1,
                                Len(shuffled_roles)),
        !.night_action_order = NIGHT_ACTION_ORDER,
        !.night_action_index = 0,
        !.phase = "NIGHT"]

\* setup_game without its length check
setup_game_unchecked(g, role_list, shuffled_roles) ==
    [ret |-> "ok", g |-> deal(g, shuffled_roles)]

\* setup_game dealing the first card to every player
setup_game_one_card(g, role_list, shuffled_roles) ==
    IF Len(role_list) # player_count(g) + 2
    THEN [ret |-> "ValueError", g |-> g]
    ELSE [ret |-> "ok",
          g |-> deal(g, [i \in 1..Len(shuffled_roles) |->
                           IF i <= player_count(g) THEN shuffled_roles[1]
                           ELSE shuffled_roles[i]])]

\* setup_game, with shuffled_roles the shuffled copy of role_list:
\* [ret: "ValueError" when it raises, g: the state after]
setup_game(g, role_list, shuffled_roles) ==
    IF Len(role_list) # player_count(g) + 2
    THEN [ret |-> "ValueError", g |-> g]
    ELSE [ret |-> "ok", g |-> deal(g, shuffled_roles)]

get_current_night_role(g) ==
    IF g.night_action_index >= Len(g.night_action_order) THEN NoRole
    ELSE g.night_action_order[g.night_action_index + 1]

\* an advance that starts over at the end of the order
advance_night_wrapped(g) ==
    [g EXCEPT !.night_action_index =
        IF @ + 1 > Len(g.night_action_order) THEN 0 ELSE @ + 1]

advance_night_phase(g) == [g EXCEPT !.night_action_index = @ + 1]

is_night_phase_complete(g) ==
    g.night_action_index >= Len(g.night_action_order)

\* get_all_wolves: by initial role
get_all_wolves(g) ==
    get_players_by_role(g, "WEREWOLF", FALSE)
        \o get_players_by_role(g, "ALPHA_WOLF", FALSE)

\* process_werewolf_night: every wolf records its check and has acted
process_werewolf_night(g) ==
    LET wolves == {get_all_wolves(g)[i] : i \in 1..Len(get_all_wolves(g))}
    IN [g EXCEPT !.players = [u \in PlayerIds(g) |->
            IF u \in wolves
            THEN [g.players[u] EXCEPT
                    !.night_action = [action_type |-> "WEREWOLF_CHECK",
                                      target_player_id |-> None],
                    !.has_acted = TRUE]
            ELSE g.players[u]]]

\* process_seer_action_player without the self-target check
process_seer_action_player_self(g, seer_id, target_id) ==
    IF seer_id \notin PlayerIds(g) \/ target_id \notin PlayerIds(g)
    THEN [ret |-> NoRole, g |-> g]
    ELSE IF g.players[seer_id].initial_role # "SEER"
    THEN [ret |-> NoRole, g |-> g]
    ELSE [ret |-> g.players[target_id].current_role,
          g |-> [g EXCEPT !.players[seer_id].night_action =
                              [action_type |-> "SEER_PLAYER",
                               target_player_id |-> target_id],
                          !.players[seer_id].has_acted = TRUE]]

\* process_seer_action_player: [ret: the role seen or NoRole, g: the state after]
process_seer_action_player(g, seer_id, target_id) ==
    IF seer_id \notin PlayerIds(g) \/ target_id \notin PlayerIds(g)
    THEN [ret |-> NoRole, g |-> g]
    ELSE IF g.players[seer_id].initial_role # "SEER"
    THEN [ret |-> NoRole, g |-> g]
    ELSE IF seer_id = target_id
    THEN [ret |-> NoRole, g |-> g]
    ELSE [ret |-> g.players[target_id].current_role,
          g |-> [g EXCEPT !.players[seer_id].night_action =
                              [action_type |-> "SEER_PLAYER",
                               target_player_id |-> target_id],
                          !.players[seer_id].has_acted = TRUE]]

\* process_seer_action_center: [ret: the center cards or <<>>, g]
process_seer_action_center(g, seer_id) ==
    IF seer_id \notin PlayerIds(g)
    THEN [ret |-> <<>>, g |-> g]
    ELSE IF g.players[seer_id].initial_role # "SEER"
    THEN [ret |-> <<>>, g |-> g]
    ELSE [ret |-> g.center_cards,
          g |-> [g EXCEPT !.players[seer_id].night_action =
                              [action_type |-> "SEER_CENTER",
                               target_player_id |-> None],
                          !.players[seer_id].has_acted = TRUE]]

\* process_thief_action whose swap leaves the target's card where it is
process_thief_action_take(g, thief_id, target_id) ==
    IF thief_id \notin PlayerIds(g)
    THEN [ret |-> NoRole, g |-> g]
    ELSE IF g.players[thief_id].initial_role # "THIEF"
    THEN [ret |-> NoRole, g |-> g]
    ELSE IF target_id = None
    THEN [ret |-> NoRole,
          g |-> [g EXCEPT !.players[thief_id].night_action =
                              [action_type |-> "THIEF_SKIP",
                               target_player_id |-> None],
                          !.players[thief_id].has_acted = TRUE]]
    ELSE IF target_id \notin PlayerIds(g)
    THEN [ret |-> NoRole, g |-> g]
    ELSE IF thief_id = target_id
    THEN [ret |-> NoRole, g |-> g]
    ELSE [ret |-> g.players[target_id].current_role,
          g |-> [g EXCEPT !.players[thief_id].current_role =
                              g.players[target_id].current_role,
                          !.players[thief_id].night_action =
                              [action_type |-> "THIEF_SWAP",
                               target_player_id |-> target_id],
                          !.players[thief_id].has_acted = TRUE]]

\* process_thief_action: [ret: the thief's new role or NoRole, g]
process_thief_action(g, thief_id, target_id) ==
    IF thief_id \notin PlayerIds(g)
    THEN [ret |-> NoRole, g |-> g]
    ELSE IF g.players[thief_id].initial_role # "THIEF"
    THEN [ret |-> NoRole, g |-> g]
    ELSE IF target_id = None
    THEN [ret |-> NoRole,
          g |-> [g EXCEPT !.players[thief_id].night_action =
                              [action_type |-> "THIEF_SKIP",
                               target_player_id |-> None],
                          !.players[thief_id].has_acted = TRUE]]
    ELSE IF target_id \notin PlayerIds(g)
    THEN [ret |-> NoRole, g |-> g]
    ELSE IF thief_id = target_id
    THEN [ret |-> NoRole, g |-> g]
    ELSE LET old_thief_role == g.players[thief_id].current_role
             new_thief_role == g.players[target_id].current_role
         IN [ret |-> new_thief_role,
             g |-> [g EXCEPT !.players[thief_id].current_role = new_thief_role,
                             !.players[target_id].current_role = old_thief_role,
                             !.players[thief_id].night_action =
                                 [action_type |-> "THIEF_SWAP",
                                  target_player_id |-> target_id],
                             !.players[thief_id].has_acted = TRUE]]

\* register_vote without the already-voted check
register_vote_again(g, voter_id, target_id) ==
    IF voter_id \notin PlayerIds(g) \/ target_id \notin PlayerIds(g)
    THEN [ret |-> FALSE, g |-> g]
    ELSE IF voter_id = target_id
    THEN [ret |-> FALSE, g |-> g]
    ELSE [ret |-> TRUE,
          g |-> [g EXCEPT !.players[voter_id].vote_target_id = target_id]]

\* register_vote: [ret: accepted, g]
register_vote(g, voter_id, target_id) ==
    IF voter_id \notin PlayerIds(g) \/ target_id \notin PlayerIds(g)
    THEN [ret |-> FALSE, g |-> g]
    ELSE IF voter_id = target_id
    THEN [ret |-> FALSE, g |-> g]
    ELSE IF g.players[voter_id].vote_target_id # None
    THEN [ret |-> FALSE, g |-> g]
    ELSE [ret |-> TRUE,
          g |-> [g EXCEPT !.players[voter_id].vote_target_id = target_id]]

\* a vote_power that gives the Mayor one vote
vote_power_one(role) == 1

\* calculate_votes: vote_power = 2 if player.current_role == MAYOR else 1
vote_power(role) == IF role = "MAYOR" THEN 2 ELSE 1

\* calculate_votes: the loop over state.players.values()
RECURSIVE count_votes(_, _, _)
count_votes(g, ids, vote_counts) ==
    IF ids = <<>> THEN vote_counts
    ELSE LET player == g.players[Head(ids)]
             counted ==
                IF player.vote_target_id # None
                THEN IF player.vote_target_id \in DOMAIN vote_counts
                     THEN [vote_counts EXCEPT ![player.vote_target_id] =
                              @ + vote_power(player.current_role)]
                     ELSE vote_counts
                ELSE vote_counts
         IN count_votes(g, Tail(ids), counted)

\* a tally that leaves the votes for -1 out
calculate_votes_players(g) ==
    count_votes([g EXCEPT !.players = [u \in PlayerIds(g) |->
                    IF g.players[u].vote_target_id = PEACE
                    THEN [g.players[u] EXCEPT !.vote_target_id = None]
                    ELSE g.players[u]]],
                g.order, [t \in PlayerIds(g) \cup {PEACE} |-> 0])

\* calculate_votes: a tally entry per player and one for -1
calculate_votes(g) ==
    count_votes(g, g.order, [t \in PlayerIds(g) \cup {PEACE} |-> 0])

MaxOf(S) == CHOOSE m \in S : \A x \in S : x <= m

\* determine_execution taking the maximum over the players' entries only
determine_execution_players_max(g) ==
    LET vote_counts == calculate_votes(g)
        max_votes == MaxOf({vote_counts[t] : t \in PlayerIds(g)})
        max_voted_players ==
            SelectSeq(g.order, LAMBDA uid : vote_counts[uid] = max_votes)
    IN IF max_votes = 0
       THEN [ret |-> <<>>, g |-> g]
       ELSE [ret |-> max_voted_players,
             g |-> [g EXCEPT !.executed_player_ids = max_voted_players]]

\* determine_execution: [ret: the executed list, g]
determine_execution(g) ==
    LET vote_counts == calculate_votes(g)
        max_votes == MaxOf({vote_counts[t] : t \in DOMAIN vote_counts})
        \* dict order: the players in roster order, then -1; -1 is dropped
        max_voted_players ==
            SelectSeq(g.order, LAMBDA uid : vote_counts[uid] = max_votes)
    IN IF max_votes = 0
       THEN [ret |-> <<>>, g |-> g]
       ELSE [ret |-> max_voted_players,
             g |-> [g EXCEPT !.executed_player_ids = max_voted_players]]

\* get_executed_hunters: the executed players whose current role is Hunter
get_executed_hunters(g) ==
    SelectSeq(g.executed_player_ids, LAMBDA uid :
        uid \in PlayerIds(g) /\ g.players[uid].current_role = "HUNTER")

SeqToSet(s) == {s[i] : i \in 1..Len(s)}

\* an append that does not look for the target in the list
add_hunter_target_again(g, target_id) ==
    IF target_id \notin PlayerIds(g)
    THEN [ret |-> FALSE, g |-> g]
    ELSE [ret |-> TRUE,
          g |-> [g EXCEPT !.executed_player_ids = Append(@, target_id)]]

\* add_hunter_target_to_execution: [ret: appended, g]
add_hunter_target_to_execution(g, target_id) ==
    IF target_id \in SeqToSet(g.executed_player_ids)
    THEN [ret |-> FALSE, g |-> g]
    ELSE IF target_id \notin PlayerIds(g)
    THEN [ret |-> FALSE, g |-> g]
    ELSE [ret |-> TRUE,
          g |-> [g EXCEPT !.executed_player_ids = Append(@, target_id)]]

is_wolf_role(role) == role \in {"WEREWOLF", "ALPHA_WOLF"}

has_wolves_in_game(g) ==
    get_players_by_role(g, "WEREWOLF", TRUE) # <<>>
        \/ get_players_by_role(g, "ALPHA_WOLF", TRUE) # <<>>

\* determine_winner: the current roles of the executed players
executed_roles(g) ==
    LET executed_players ==
            SelectSeq(g.executed_player_ids, LAMBDA uid : uid \in PlayerIds(g))
    IN [i \in 1..Len(executed_players) |->
            g.players[executed_players[i]].current_role]

\* a determine_winner that looks for an executed wolf before the Tanner
winners_of_wolf_first(g) ==
    IF g.executed_player_ids = <<>>
    THEN IF has_wolves_in_game(g) THEN <<"WEREWOLF">>
         ELSE <<"VILLAGE", "WEREWOLF", "TANNER">>
    ELSE IF \E i \in 1..Len(executed_roles(g)) :
                is_wolf_role(executed_roles(g)[i])
    THEN <<"VILLAGE">>
    ELSE IF "TANNER" \in SeqToSet(executed_roles(g)) THEN <<"TANNER">>
    ELSE IF has_wolves_in_game(g) THEN <<"WEREWOLF">>
    ELSE <<"TANNER">>

\* a determine_winner for which any execution beats the wolves in play
winners_of_any_execution(g) ==
    IF "TANNER" \in SeqToSet(executed_roles(g)) THEN <<"TANNER">>
    ELSE IF g.executed_player_ids = <<>>
    THEN IF has_wolves_in_game(g) THEN <<"WEREWOLF">>
         ELSE <<"VILLAGE", "WEREWOLF", "TANNER">>
    ELSE IF has_wolves_in_game(g) THEN <<"VILLAGE">>
    ELSE <<"TANNER">>

\* a determine_winner without the no-wolves branches
winners_of_no_peace_village(g) ==
    IF "TANNER" \in SeqToSet(executed_roles(g)) THEN <<"TANNER">>
    ELSE IF \E i \in 1..Len(executed_roles(g)) :
                is_wolf_role(executed_roles(g)[i])
    THEN <<"VILLAGE">>
    ELSE <<"WEREWOLF">>

\* determine_winner: the winners list (stored in state.winners and returned)
winners_of(g) ==
    LET executed_ids == g.executed_player_ids
        wolves_exist == has_wolves_in_game(g)
    IN IF "TANNER" \in SeqToSet(executed_roles(g)) THEN <<"TANNER">>
       ELSE IF executed_ids = <<>>
       THEN IF wolves_exist THEN <<"WEREWOLF">>
            ELSE <<"VILLAGE", "WEREWOLF", "TANNER">>
       ELSE IF \E i \in 1..Len(executed_roles(g)) :
                   is_wolf_role(executed_roles(g)[i])
       THEN <<"VILLAGE">>
       ELSE IF wolves_exist THEN <<"WEREWOLF">>
       ELSE <<"TANNER">>

determine_winner(g) == [g EXCEPT !.winners = winners_of(g)]

-----------------------------------------------------------------------------
(* bot.py: the soft reset and the phase changes of the orchestration *)

\* a soft reset that rebuilds every Player
reset_game_new_players(g) ==
    [g EXCEPT !.players = [u \in PlayerIds(g) |-> NewPlayer],
              !.discussion_history = <<>>,
              !.phase = "WAITING",
              !.center_cards = <<>>,
              !.night_action_order = <<>>,
              !.night_action_index = 0,
              !.executed_player_ids = <<>>,
              !.winners = <<>>]

\* reset_game_keep_players
reset_game_keep_players(g) ==
    [g EXCEPT !.players = [u \in PlayerIds(g) |->
                [g.players[u] EXCEPT !.initial_role = "VILLAGER",
                                     !.current_role = "VILLAGER",
                                     !.night_action = NoAction,
                                     !.has_acted = FALSE,
                                     !.vote_target_id = None]],
              !.discussion_history = <<>>,
              !.phase = "WAITING",
              !.center_cards = <<>>,
              !.night_action_order = <<>>,
              !.night_action_index = 0,
              !.executed_player_ids = <<>>,
              !.winners = <<>>]

-----------------------------------------------------------------------------
(* LogicSpec: game/logic.py applied to one GameState, in the bot's order *)

\* an identifier no player has: rosters hold at most MAX_PLAYERS players
UnknownId == MAX_PLAYERS + 1

RECURSIVE Pad(_, _)
Pad(role, n) == IF n <= 0 THEN <<>> ELSE <<role>> \o Pad(role, n - 1)

\* two compositions for a roster of MIN_PLAYERS players: the default one
\* and one holding the Tanner, a wolf, the Hunter, the Mayor and the Thief
BaseLists ==
    {<<"WEREWOLF", "VILLAGER", "VILLAGER", "SEER", "THIEF">>,
     <<"TANNER", "ALPHA_WOLF", "HUNTER", "MAYOR", "THIEF">>}

\* role lists handed to setup_game: of the required length, one card short,
\* and up to MaxOver cards over
RoleListInputs ==
    BaseLists \cup {Tail(b) : b \in BaseLists}
        \cup {b \o Pad("MADMAN", k) : b \in BaseLists, k \in 1..MaxOver}

\* the last call: the function and what it returned
NoCall == [op |-> "none", ret |-> ""]

Call(op, ret) == [op |-> op, ret |-> ret]

BoolStr(x) == IF x THEN "True" ELSE "False"

LG == objs[1]

RECURSIVE Enroll(_, _)
Enroll(g, n) == IF n = 0 THEN g ELSE add_player(Enroll(g, n - 1), n)

\* a roster of MIN_PLAYERS players, the smallest one begin accepts
LogicInit ==
    /\ objs = <<Enroll(NewGameState(1), MIN_PLAYERS)>>
    /\ registry = 1
    /\ tasks = EmptyBag
    /\ begun = 0
    /\ last = NoCall
    /\ llm = NewLlm

LogicFrame == UNCHANGED <<registry, tasks, begun, llm>>

AllActed(g, role) ==
    \A u \in SeqToSet(get_players_by_role(g, role, FALSE)) :
        g.players[u].has_acted

\* wait_for_seer_actions, wait_for_thief_actions: a player who has acted
\* is turned away before the engine is called
MayAct(g, u) == u \in PlayerIds(g) => ~g.players[u].has_acted

\* begin: setup_game(game, role_list)
L_setup_game ==
    /\ LG.phase = "WAITING"
    /\ \E rl \in RoleListInputs : \E s \in shuffle(rl) :
        LET r == setup_game(LG, rl, s)
        IN /\ objs' = <<r.g>>
           /\ last' = Call("setup_game", r.ret)
    /\ LogicFrame

\* process_werewolves: process_werewolf_night, advance_night_phase
L_process_werewolves ==
    /\ LG.phase = "NIGHT" /\ LG.night_action_index = 0
    /\ objs' = <<advance_night_phase(process_werewolf_night(LG))>>
    /\ last' = Call("process_werewolf_night", "")
    /\ LogicFrame

\* process_seer_action(..., target_player_id=...)
L_seer_player ==
    /\ LG.phase = "NIGHT" /\ LG.night_action_index = 1
    /\ \E s \in PlayerIds(LG) \cup {UnknownId},
          t \in PlayerIds(LG) \cup {UnknownId} :
        LET r == process_seer_action_player(LG, s, t)
        IN /\ MayAct(LG, s)
           /\ objs' = <<r.g>>
           /\ last' = Call("process_seer_action_player", r.ret)
    /\ LogicFrame

\* process_seer_action(..., view_center=True)
L_seer_center ==
    /\ LG.phase = "NIGHT" /\ LG.night_action_index = 1
    /\ \E s \in PlayerIds(LG) \cup {UnknownId} :
        LET r == process_seer_action_center(LG, s)
        IN /\ MayAct(LG, s)
           /\ objs' = <<r.g>>
           /\ last' = Call("process_seer_action_center", BoolStr(r.ret # <<>>))
    /\ LogicFrame

\* process_seers: advance_night_phase once every Seer has acted
L_seers_done ==
    /\ LG.phase = "NIGHT" /\ LG.night_action_index = 1
    /\ AllActed(LG, "SEER")
    /\ objs' = <<advance_night_phase(LG)>>
    /\ last' = Call("advance_night_phase", "")
    /\ LogicFrame

\* process_thief_action
L_thief ==
    /\ LG.phase = "NIGHT" /\ LG.night_action_index = 2
    /\ \E s \in PlayerIds(LG) \cup {UnknownId},
          t \in PlayerIds(LG) \cup {None, UnknownId} :
        LET r == process_thief_action(LG, s, t)
        IN /\ MayAct(LG, s)
           /\ objs' = <<r.g>>
           /\ last' = Call("process_thief_action", r.ret)
    /\ LogicFrame

\* process_thieves, process_hunters: advance twice; start_day_phase
L_start_day ==
    /\ LG.phase = "NIGHT" /\ LG.night_action_index = 2
    /\ AllActed(LG, "THIEF")
    /\ objs' = <<[advance_night_phase(advance_night_phase(LG))
                    EXCEPT !.phase = "DISCUSSION"]>>
    /\ last' = Call("start_day_phase", "")
    /\ LogicFrame

\* start_voting_phase
L_start_voting ==
    /\ LG.phase = "DISCUSSION"
    /\ objs' = <<[LG EXCEPT !.phase = "VOTING"]>>
    /\ last' = Call("start_voting_phase", "")
    /\ LogicFrame

\* register_vote
L_register_vote ==
    /\ LG.phase = "VOTING"
    /\ \E v \in PlayerIds(LG) \cup {UnknownId},
          t \in PlayerIds(LG) \cup {PEACE, UnknownId} :
        LET r == register_vote(LG, v, t)
        IN /\ objs' = <<r.g>>
           /\ last' = Call("register_vote", BoolStr(r.ret))
    /\ LogicFrame

\* vote "-1", process_llm_votes: vote_target_id = -1 for one who has not voted
L_peace_vote ==
    /\ LG.phase = "VOTING"
    /\ \E v \in PlayerIds(LG) :
        /\ LG.players[v].vote_target_id = None
        /\ objs' = <<[LG EXCEPT !.players[v].vote_target_id = PEACE]>>
        /\ last' = Call("peace_vote", "")
    /\ LogicFrame

\* end_voting_phase: phase = ENDED, determine_execution
L_determine_execution ==
    /\ LG.phase = "VOTING"
    /\ LET r == determine_execution([LG EXCEPT !.phase = "ENDED"])
       IN /\ objs' = <<r.g>>
          /\ last' = Call("determine_execution", "")
    /\ LogicFrame

\* process_hunter_revenge: add_hunter_target_to_execution, once for the
\* executed Hunter
L_add_hunter_target ==
    /\ LG.phase = "ENDED" /\ LG.winners = <<>>
    /\ get_executed_hunters(LG) # <<>>
    /\ LG.executed_player_ids = determine_execution(LG).ret
    /\ \E t \in PlayerIds(LG) \cup {UnknownId} :
        LET r == add_hunter_target_to_execution(LG, t)
        IN /\ objs' = <<r.g>>
           /\ last' = Call("add_hunter_target_to_execution", BoolStr(r.ret))
    /\ LogicFrame

\* end_voting_phase: determine_winner
L_determine_winner ==
    /\ LG.phase = "ENDED" /\ LG.winners = <<>>
    /\ objs' = <<determine_winner(LG)>>
    /\ last' = Call("determine_winner", "")
    /\ LogicFrame

\* end_voting_phase: reset_game_keep_players
L_reset ==
    /\ LG.phase = "ENDED" /\ LG.winners # <<>>
    /\ objs' = <<reset_game_keep_players(LG)>>
    /\ last' = Call("reset_game_keep_players", "")
    /\ LogicFrame

LogicNext ==
    \/ L_setup_game
    \/ L_process_werewolves
    \/ L_seer_player
    \/ L_seer_center
    \/ L_seers_done
    \/ L_thief
    \/ L_start_day
    \/ L_start_voting
    \/ L_register_vote
    \/ L_peace_vote
    \/ L_determine_execution
    \/ L_add_hunter_target
    \/ L_determine_winner
    \/ L_reset

LogicSpec == LogicInit /\ [][LogicNext]_vars

-----------------------------------------------------------------------------
(* game/llm_player.py *)

\* the role the player was dealt, whatever it did at night
get_dealt_role(player) == player.initial_role

\* get_perceived_role: the role the player knows it holds
get_perceived_role(player) ==
    IF /\ player.initial_role = "THIEF"
       /\ player.night_action.action_type = "THIEF_SWAP"
    THEN player.current_role
    ELSE player.initial_role

\* llm_vote up to its first await: -1 at once for a player who takes itself
\* for the Tanner, else the call of call_grok_api that decides the vote
llm_vote(player) ==
    IF get_perceived_role(player) = "TANNER"
    THEN [api |-> FALSE, ret |-> PEACE]
    ELSE [api |-> TRUE, ret |-> None]

-----------------------------------------------------------------------------
(* VoteSpec: LogicSpec with llm_vote applied to a player who has not voted, *)
(* its result registered as process_llm_votes registers it                  *)

\* llm_vote returning target_id for voter v: a player other than v or -1 when
\* the API was called
L_llm_vote ==
    /\ LG.phase = "VOTING"
    /\ \E v \in PlayerIds(LG), answer \in PlayerIds(LG) \cup {PEACE} :
        LET r == llm_vote(LG.players[v])
            target_id == IF r.api THEN answer ELSE r.ret
        IN /\ LG.players[v].vote_target_id = None
           /\ answer # v
           /\ objs' = <<IF target_id = PEACE
                        THEN [LG EXCEPT !.players[v].vote_target_id = PEACE]
                        ELSE register_vote(LG, v, target_id).g>>
           /\ last' = Call("llm_vote",
                           [voter |-> v, api |-> r.api, ret |-> target_id])
    /\ LogicFrame

VoteNext == LogicNext \/ L_llm_vote

VoteSpec == LogicInit /\ [][VoteNext]_vars

-----------------------------------------------------------------------------
(* Spec: the coroutines of bot.py on one channel.  A task is a coroutine    *)
(* suspended at an await; an action is the run of one task from one         *)
(* suspension to the next, or a command handler from its start to its       *)
(* first await.                                                             *)

\* games.get(channel_id) is None
NoGame == None

Humans == 1..MaxHumans

NoMsg == [who |-> None, what |-> "", t |-> None]

\* a task: the coroutine (kind), the await it is suspended at (pc), the
\* GameState it holds (g, an index into objs) and its local variables
NewTask(kind, pc, g) ==
    [kind |-> kind, pc |-> pc, g |-> g, u |-> None, i |-> 0, ids |-> <<>>,
     roles |-> <<>>, pend |-> {}, msg |-> NoMsg]

Spawn(t) == tasks (+) SetToBag({t})
Finish(t) == tasks (-) SetToBag({t})
Become(t, t2) == (tasks (-) SetToBag({t})) (+) SetToBag({t2})

\* where a run of a task stops: the GameState after it, the await reached
\* ("done": the coroutine is over) and the locals kept across the await
At(g, pc) == [g |-> g, pc |-> pc, ids |-> <<>>, i |-> 0, pend |-> {}]

AtLoop(g, pc, ids, i) == [g |-> g, pc |-> pc, ids |-> ids, i |-> i, pend |-> {}]

AtGather(g, pc, pend) == [g |-> g, pc |-> pc, ids |-> <<>>, i |-> 0, pend |-> pend]

\* the task t runs up to r
Run(t, r) ==
    /\ objs' = [objs EXCEPT ![t.g] = r.g]
    /\ tasks' = IF r.pc = "done" THEN Finish(t)
                ELSE Become(t, [t EXCEPT !.pc = r.pc, !.ids = r.ids, !.i = r.i,
                                         !.pend = r.pend, !.msg = NoMsg])

\* random.shuffle in Spec: the first MaxShuffles of these arrangements of a
\* five-card list (positions of the cards dealt first to last); the first
\* deals the default composition's Werewolf, Seer and Thief to the players
Arrangements ==
    <<<<1, 4, 5, 2, 3>>, <<4, 5, 1, 2, 3>>, <<2, 3, 4, 5, 1>>,
      <<5, 1, 2, 3, 4>>, <<3, 5, 4, 1, 2>>>>

shuffles(role_list, n) ==
    IF Len(role_list) # 5 THEN {role_list}
    ELSE {[j \in 1..5 |-> role_list[Arrangements[k][j]]] :
            k \in 1..(IF n < 5 THEN n ELSE 5)}

shuffle_bounded(role_list) == shuffles(role_list, MaxShuffles)

\* start_day_phase up to its sleep: phase = DISCUSSION
start_day_phase(g) == At([g EXCEPT !.phase = "DISCUSSION"], "discussion")

\* process_hunters: advance_night_phase
process_hunters(g) == advance_night_phase(g)

\* process_thieves up to its gather: pend holds the Thieves still to act
process_thieves(g) ==
    LET thieves == get_players_by_role(g, "THIEF", FALSE)
    IN IF thieves = <<>>
       THEN start_day_phase(process_hunters(advance_night_phase(g)))
       ELSE AtGather(g, "thieves", SeqToSet(thieves))

\* process_seers up to its gather: pend holds the Seers still to act
process_seers(g) ==
    LET seers == get_players_by_role(g, "SEER", FALSE)
    IN IF seers = <<>>
       THEN process_thieves(advance_night_phase(g))
       ELSE AtGather(g, "seers", SeqToSet(seers))

\* process_werewolves: process_werewolf_night, then a DM to every human wolf
process_werewolves(g) ==
    LET human_wolves == SelectSeq(get_all_wolves(g), LAMBDA u : ~is_llm(u))
        g1 == process_werewolf_night(g)
    IN IF human_wolves # <<>> THEN At(g1, "wolf_dm")
       ELSE process_seers(advance_night_phase(g1))

\* end_voting_phase up to its first await
end_voting_phase(g) ==
    IF g.phase = "ENDED" THEN At(g, "done")
    ELSE LET r == determine_execution([g EXCEPT !.phase = "ENDED"])
             executed_hunters == get_executed_hunters(r.g)
         IN IF executed_hunters # <<>>
            THEN AtLoop(r.g, "revenge", executed_hunters, 1)
            ELSE At(r.g, "results")

\* process_hunter_revenge: the Hunter ids[i] names target, or nobody
process_hunter_revenge(g, ids, i, target) ==
    LET g1 == IF target = None THEN g
              ELSE add_hunter_target_to_execution(g, target).g
    IN IF i + 1 > Len(ids) THEN At(g1, "results")
       ELSE AtLoop(g1, "revenge", ids, i + 1)

\* vote: after the confirmation is sent
vote_sent(g) == IF all_voted(g) THEN end_voting_phase(g) ELSE At(g, "done")

\* process_llm_votes: the end of the loop body for llm_players[i]
llm_voted(g, ids, i) ==
    IF all_voted(g) THEN end_voting_phase(g)
    ELSE AtLoop(g, "sleep", ids, i + 1)

\* process_llm_votes: from the top of the loop for llm_players[i]
RECURSIVE process_llm_votes(_, _, _)
process_llm_votes(g, ids, i) ==
    IF i > Len(ids) THEN At(g, "done")
    ELSE IF g.phase # "VOTING" THEN At(g, "done")
    ELSE IF g.players[ids[i]].vote_target_id # None
    THEN process_llm_votes(g, ids, i + 1)
    ELSE IF ~llm_vote(g.players[ids[i]]).api
    THEN AtLoop([g EXCEPT !.players[ids[i]].vote_target_id = PEACE],
                "sent", ids, i)
    ELSE AtLoop(g, "api", ids, i)

\* process_llm_votes: llm_vote has returned target_id
llm_vote_returned(g, ids, i, target_id) ==
    IF target_id = PEACE
    THEN AtLoop([g EXCEPT !.players[ids[i]].vote_target_id = PEACE],
                "sent", ids, i)
    ELSE LET r == register_vote(g, ids[i], target_id)
         IN IF r.ret THEN AtLoop(r.g, "sent", ids, i)
            ELSE llm_voted(r.g, ids, i)

\* add_bot: the loop over range(count)
RECURSIVE add_bots(_, _, _)
add_bots(g, count, added) ==
    IF count = 0 THEN g
    ELSE LET llm_id == -1000 - Len(get_llm_players(g)) - added
         IN add_bots(add_player(g, llm_id), count - 1, added + 1)

Init ==
    /\ objs = <<>>
    /\ registry = NoGame
    /\ tasks = EmptyBag
    /\ begun = 0
    /\ last = NoCall
    /\ llm = NewLlm

\* /onj start
start(u) ==
    /\ IF registry = NoGame THEN TRUE ELSE objs[registry].phase = "ENDED"
    /\ objs' = Append(objs, add_player(NewGameState(u), u))
    /\ registry' = Len(objs) + 1
    /\ UNCHANGED <<tasks, begun, last, llm>>

\* join without the roster-full check
join_full(u) ==
    /\ registry # NoGame
    /\ objs[registry].phase = "WAITING"
    /\ u \notin PlayerIds(objs[registry])
    /\ objs' = [objs EXCEPT ![registry] = add_player(@, u)]
    /\ UNCHANGED <<registry, tasks, begun, last, llm>>

\* /onj join
join(u) ==
    /\ registry # NoGame
    /\ objs[registry].phase = "WAITING"
    /\ player_count(objs[registry]) < MAX_PLAYERS
    /\ u \notin PlayerIds(objs[registry])
    /\ objs' = [objs EXCEPT ![registry] = add_player(@, u)]
    /\ UNCHANGED <<registry, tasks, begun, last, llm>>

\* /onj add_bot count
add_bot(u, count) ==
    /\ registry # NoGame
    /\ objs[registry].phase = "WAITING"
    /\ u = objs[registry].host_id
    /\ count >= 1 /\ count <= 7
    /\ player_count(objs[registry]) + count <= MAX_PLAYERS
    /\ objs' = [objs EXCEPT ![registry] = add_bots(@, count, 0)]
    /\ UNCHANGED <<registry, tasks, begun, last, llm>>

\* /onj leave: the player is removed; the host's leave ends the game
leave(u) ==
    /\ registry # NoGame
    /\ objs[registry].phase = "WAITING"
    /\ u \in PlayerIds(objs[registry])
    /\ objs' = [objs EXCEPT ![registry] = remove_player(@, u)]
    /\ registry' = IF u = objs[registry].host_id THEN NoGame ELSE registry
    /\ UNCHANGED <<tasks, begun, last, llm>>

\* /onj cancel: end_game deletes games[channel]
cancel(u) ==
    /\ registry # NoGame
    /\ u = objs[registry].host_id
    /\ registry' = NoGame
    /\ UNCHANGED <<objs, tasks, begun, last, llm>>

\* remove_bot: the loop over enumerate(llm_players), stopped at i >= count
RECURSIVE remove_bots(_, _, _)
remove_bots(g, llm_players, count) ==
    IF llm_players = <<>> \/ count <= 0 THEN g
    ELSE remove_bots(remove_player(g, Head(llm_players)),
                     Tail(llm_players), count - 1)

\* /onj remove_bot count; count = 0 removes every AI player
remove_bot(u, count) ==
    /\ registry # NoGame
    /\ objs[registry].phase = "WAITING"
    /\ u = objs[registry].host_id
    /\ LET llm_players == get_llm_players(objs[registry])
       IN /\ llm_players # <<>>
          /\ objs' = [objs EXCEPT ![registry] =
                remove_bots(@, llm_players,
                            IF count = 0 THEN Len(llm_players) ELSE count)]
    /\ UNCHANGED <<registry, tasks, begun, last, llm>>

\* the AI players of the registered game
BotsEnrolled ==
    IF registry = NoGame THEN 0 ELSE Len(get_llm_players(objs[registry]))

\* /onj begin, up to the announcement: the checks pass and role_list is read
begin(u) ==
    /\ registry # NoGame
    /\ LET game == objs[registry]
           role_list == IF game.custom_role_config # NoConfig
                        THEN game.custom_role_config
                        ELSE ROLE_CONFIG(player_count(game))
       IN /\ game.phase = "WAITING"
          /\ u = game.host_id
          /\ player_count(game) >= MIN_PLAYERS
          /\ player_count(game) <= MAX_PLAYERS
          /\ role_list # NoConfig
          /\ Len(role_list) = player_count(game) + CENTER_CARD_COUNT
          /\ begun < MaxBegins
          /\ tasks' = Spawn([NewTask("begin", "begin_send", registry)
                                EXCEPT !.roles = role_list])
    /\ begun' = begun + 1
    /\ UNCHANGED <<objs, registry, last, llm>>

\* begin after the announcement: setup_game, the role DMs, the night message
begin_setup_from(t, S) ==
    /\ t.kind = "begin" /\ t.pc = "begin_send"
    /\ \E s \in S :
        LET r == setup_game(objs[t.g], t.roles, s)
        IN Run(t, At(r.g, IF r.ret = "ok" THEN "night_send" ELSE "done"))
    /\ UNCHANGED <<registry, begun, last, llm>>

begin_setup(t) == begin_setup_from(t, shuffle_bounded(t.roles))

\* start_night_phase after the night message: process_werewolves
night_werewolves(t) ==
    /\ t.kind = "begin" /\ t.pc = "night_send"
    /\ Run(t, process_werewolves(objs[t.g]))
    /\ UNCHANGED <<registry, begun, last, llm>>

\* process_werewolves after the DMs: advance_night_phase, process_seers
night_wolf_dm(t) ==
    /\ t.kind = "begin" /\ t.pc = "wolf_dm"
    /\ Run(t, process_seers(advance_night_phase(objs[t.g])))
    /\ UNCHANGED <<registry, begun, last, llm>>

\* the listeners of bot.wait_for that the DM m of a player reaches
Hears(t, m, pc) ==
    /\ t.kind = "begin" /\ t.pc = pc /\ t.msg = NoMsg
    /\ m.who \in t.pend
    /\ m.who \in PlayerIds(objs[t.g])
    /\ ~objs[t.g].players[m.who].has_acted

RECURSIVE Deliver(_, _, _)
Deliver(S, m, pc) ==
    IF S = {} THEN EmptyBag
    ELSE LET t == CHOOSE x \in S : TRUE
             t2 == IF Hears(t, m, pc) THEN [t EXCEPT !.msg = m] ELSE t
         IN [x \in {t2} |-> CopiesIn(t, tasks)] (+) Deliver(S \ {t}, m, pc)

\* a human player's DM "!seer center" or "!seer player <name>"
seer_message(u, what, target) ==
    /\ what \in {"center", "player"}
    /\ what = "center" => target = None
    /\ what = "player" => target # None
    /\ LET m == [who |-> u, what |-> what, t |-> target]
       IN /\ \E t \in BagToSet(tasks) : Hears(t, m, "seers")
          /\ tasks' = Deliver(BagToSet(tasks), m, "seers")
    /\ UNCHANGED <<objs, registry, begun, last, llm>>

\* wait_for_seer_actions: the DM is handled
seer_handle(t) ==
    /\ t.kind = "begin" /\ t.pc = "seers" /\ t.msg # NoMsg
    /\ LET game == objs[t.g]
           seer == t.msg.who
           target == t.msg.t
       IN IF seer \notin PlayerIds(game)
             \/ (t.msg.what = "player"
                    /\ (target \notin PlayerIds(game) \/ target = seer))
          THEN /\ objs' = objs
               /\ tasks' = Become(t, [t EXCEPT !.msg = NoMsg])
          ELSE IF t.msg.what = "center"
          THEN LET r == process_seer_action_center(game, seer)
               IN /\ objs' = [objs EXCEPT ![t.g] = r.g]
                  /\ tasks' = Become(t, [t EXCEPT !.msg = NoMsg,
                        !.pend = IF r.ret # <<>> THEN @ \ {seer} ELSE @])
          ELSE LET r == process_seer_action_player(game, seer, target)
               IN /\ objs' = [objs EXCEPT ![t.g] = r.g]
                  /\ tasks' = Become(t, [t EXCEPT !.msg = NoMsg,
                        !.pend = IF r.ret # NoRole THEN @ \ {seer} ELSE @])
    /\ UNCHANGED <<registry, begun, last, llm>>

\* process_llm_seer: llm_seer_action has returned
seer_llm(t, u, what, target) ==
    /\ t.kind = "begin" /\ t.pc = "seers"
    /\ u \in t.pend /\ is_llm(u)
    /\ u \in PlayerIds(objs[t.g])
    /\ \/ /\ what = "center" /\ target = None
          /\ objs' = [objs EXCEPT ![t.g] =
                        process_seer_action_center(@, u).g]
       \/ /\ what = "player" /\ target \in PlayerIds(objs[t.g]) \ {u}
          /\ objs' = [objs EXCEPT ![t.g] =
                        process_seer_action_player(@, u, target).g]
    /\ tasks' = Become(t, [t EXCEPT !.pend = @ \ {u}])
    /\ UNCHANGED <<registry, begun, last, llm>>

\* process_seers after its gather: advance_night_phase, process_thieves
seers_done(t) ==
    /\ t.kind = "begin" /\ t.pc = "seers"
    /\ t.pend = {} /\ t.msg = NoMsg
    /\ Run(t, process_thieves(advance_night_phase(objs[t.g])))
    /\ UNCHANGED <<registry, begun, last, llm>>

\* a human player's DM "!thief skip" or "!thief <name>"
thief_message(u, what, target) ==
    /\ what \in {"skip", "swap"}
    /\ what = "skip" => target = None
    /\ what = "swap" => target # None
    /\ LET m == [who |-> u, what |-> what, t |-> target]
       IN /\ \E t \in BagToSet(tasks) : Hears(t, m, "thieves")
          /\ tasks' = Deliver(BagToSet(tasks), m, "thieves")
    /\ UNCHANGED <<objs, registry, begun, last, llm>>

\* wait_for_thief_actions: the DM is handled
thief_handle(t) ==
    /\ t.kind = "begin" /\ t.pc = "thieves" /\ t.msg # NoMsg
    /\ LET game == objs[t.g]
           thief == t.msg.who
           target == t.msg.t
       IN IF thief \notin PlayerIds(game)
             \/ (t.msg.what = "swap"
                    /\ (target \notin PlayerIds(game) \/ target = thief))
          THEN /\ objs' = objs
               /\ tasks' = Become(t, [t EXCEPT !.msg = NoMsg])
          ELSE LET r == process_thief_action(game, thief, target)
               IN /\ objs' = [objs EXCEPT ![t.g] = r.g]
                  /\ tasks' = Become(t, [t EXCEPT !.msg = NoMsg,
                        !.pend = IF t.msg.what = "skip" \/ r.ret # NoRole
                                 THEN @ \ {thief} ELSE @])
    /\ UNCHANGED <<registry, begun, last, llm>>

\* process_llm_thief: llm_thief_action has returned
thief_llm(t, u, target) ==
    /\ t.kind = "begin" /\ t.pc = "thieves"
    /\ u \in t.pend /\ is_llm(u)
    /\ u \in PlayerIds(objs[t.g])
    /\ target \in PlayerIds(objs[t.g]) \ {u}
    /\ objs' = [objs EXCEPT ![t.g] = process_thief_action(@, u, target).g]
    /\ tasks' = Become(t, [t EXCEPT !.pend = @ \ {u}])
    /\ UNCHANGED <<registry, begun, last, llm>>

\* process_thieves after its gather: advance_night_phase, process_hunters,
\* start_day_phase
thieves_done(t) ==
    /\ t.kind = "begin" /\ t.pc = "thieves"
    /\ t.pend = {} /\ t.msg = NoMsg
    /\ Run(t, start_day_phase(process_hunters(advance_night_phase(objs[t.g]))))
    /\ UNCHANGED <<registry, begun, last, llm>>

\* start_day_phase after its sleep: start_voting_phase sets phase = VOTING
discussion_over(t) ==
    /\ t.kind = "begin" /\ t.pc = "discussion"
    /\ Run(t, At([objs[t.g] EXCEPT !.phase = "VOTING"], "voting_send"))
    /\ UNCHANGED <<registry, begun, last, llm>>

\* start_voting_phase after its message: create_task(process_llm_votes)
voting_announced(t) ==
    /\ t.kind = "begin" /\ t.pc = "voting_send"
    /\ LET llm_players == get_llm_players(objs[t.g])
       IN tasks' = IF llm_players # <<>>
                   THEN Finish(t) (+) SetToBag({
                            [NewTask("process_llm_votes", "sleep", t.g)
                                EXCEPT !.ids = llm_players, !.i = 1]})
                   ELSE Finish(t)
    /\ UNCHANGED <<objs, registry, begun, last, llm>>

\* process_llm_votes after a sleep: the loop up to llm_vote or a vote of -1
llm_votes_loop(t) ==
    /\ t.kind = "process_llm_votes" /\ t.pc = "sleep"
    /\ Run(t, process_llm_votes(objs[t.g], t.ids, t.i))
    /\ UNCHANGED <<registry, begun, last, llm>>

\* process_llm_votes: llm_vote returns a player other than the voter, or -1
llm_vote_api(t, target_id) ==
    /\ t.kind = "process_llm_votes" /\ t.pc = "api"
    /\ target_id \in (PlayerIds(objs[t.g]) \ {t.ids[t.i]}) \cup {PEACE}
    /\ Run(t, llm_vote_returned(objs[t.g], t.ids, t.i, target_id))
    /\ UNCHANGED <<registry, begun, last, llm>>

\* process_llm_votes after its message: all_voted, end_voting_phase or sleep
llm_vote_sent(t) ==
    /\ t.kind = "process_llm_votes" /\ t.pc = "sent"
    /\ Run(t, llm_voted(objs[t.g], t.ids, t.i))
    /\ UNCHANGED <<registry, begun, last, llm>>

\* /onj vote player, up to its confirmation; player is "-1" or a user id
vote(u, player) ==
    /\ registry # NoGame
    /\ LET game == objs[registry]
       IN /\ game.phase = "VOTING"
          /\ u \in PlayerIds(game)
          /\ game.players[u].vote_target_id = None
          /\ IF player = PEACE
             THEN objs' = [objs EXCEPT
                             ![registry].players[u].vote_target_id = PEACE]
             ELSE /\ player \in PlayerIds(game)
                  /\ u # player
                  /\ register_vote(game, u, player).ret
                  /\ objs' = [objs EXCEPT
                                ![registry] = register_vote(game, u, player).g]
          /\ tasks' = Spawn(NewTask("vote", "sent", registry))
    /\ UNCHANGED <<registry, begun, last, llm>>

\* vote after its confirmation: all_voted, end_voting_phase
vote_confirmed(t) ==
    /\ t.kind = "vote" /\ t.pc = "sent"
    /\ Run(t, vote_sent(objs[t.g]))
    /\ UNCHANGED <<registry, begun, last, llm>>

\* end_voting_phase after process_hunter_revenge's prompt (a Hunter names a
\* target or nobody) or after the results: determine_winner
end_voting_results(t) ==
    /\ t.pc \in {"revenge", "results"}
    /\ IF t.pc = "revenge"
       THEN \E target \in (PlayerIds(objs[t.g]) \ {t.ids[t.i]}) \cup {None} :
                Run(t, process_hunter_revenge(objs[t.g], t.ids, t.i, target))
       ELSE Run(t, At(determine_winner(objs[t.g]), "winner"))
    /\ UNCHANGED <<registry, begun, last, llm>>

\* end_voting_phase after the winners and the roles: reset_game_keep_players
end_voting_reset(t) ==
    /\ t.pc = "winner"
    /\ Run(t, At(reset_game_keep_players(objs[t.g]), "done"))
    /\ UNCHANGED <<registry, begun, last, llm>>

Targets == Humans \cup {-1000 - k : k \in 0..(MaxBots - 1)}

Next ==
    \/ \E u \in 1..MaxHosts : Len(objs) < MaxGames /\ start(u)
    \/ \E u \in Humans : join(u)
    \/ \E u \in Humans, count \in 1..MaxBots :
        BotsEnrolled + count <= MaxBots /\ add_bot(u, count)
    \/ \E u \in Humans : begin(u)
    \/ \E t \in BagToSet(tasks) : begin_setup(t)
    \/ \E t \in BagToSet(tasks) : night_werewolves(t)
    \/ \E t \in BagToSet(tasks) : night_wolf_dm(t)
    \/ \E u \in Humans, target \in Targets \cup {None} :
        seer_message(u, IF target = None THEN "center" ELSE "player", target)
    \/ \E t \in BagToSet(tasks) : seer_handle(t)
    \/ \E t \in BagToSet(tasks), u \in Targets, target \in Targets \cup {None} :
        seer_llm(t, u, IF target = None THEN "center" ELSE "player", target)
    \/ \E t \in BagToSet(tasks) : seers_done(t)
    \/ \E u \in Humans, target \in Targets \cup {None} :
        thief_message(u, IF target = None THEN "skip" ELSE "swap", target)
    \/ \E t \in BagToSet(tasks) : thief_handle(t)
    \/ \E t \in BagToSet(tasks), u \in Targets, target \in Targets :
        thief_llm(t, u, target)
    \/ \E t \in BagToSet(tasks) : thieves_done(t)
    \/ \E t \in BagToSet(tasks) : discussion_over(t)
    \/ \E t \in BagToSet(tasks) : voting_announced(t)
    \/ \E t \in BagToSet(tasks) : llm_votes_loop(t)
    \/ \E t \in BagToSet(tasks), target \in Targets \cup {PEACE} :
        llm_vote_api(t, target)
    \/ \E t \in BagToSet(tasks) : llm_vote_sent(t)
    \/ \E u \in Humans, player \in (1..MaxVoteTargets) \cup {PEACE} :
        vote(u, player)
    \/ \E t \in BagToSet(tasks) : vote_confirmed(t)
    \/ \E t \in BagToSet(tasks) : end_voting_results(t)
    \/ \E t \in BagToSet(tasks) : end_voting_reset(t)

Spec == Init /\ [][Next]_vars

\* FrozenSpec: Spec with the two commands that shrink a roster
FrozenNext ==
    \/ Next
    \/ \E u \in Humans : leave(u)
    \/ \E u \in Humans, count \in 0..MaxRemove : remove_bot(u, count)

FrozenSpec == Init /\ [][FrozenNext]_vars

-----------------------------------------------------------------------------
(* FairSpec: the coroutines of Spec with every human answering a prompt by  *)
(* "!seer center", "!thief skip" or a vote of -1, more than one outcome of  *)
(* random.shuffle, and the fairness of the event loop: a coroutine whose    *)
(* await can complete is resumed, and a human who is asked for an input     *)
(* sends it.                                                                *)

FairNext ==
    \/ \E u \in 1..MaxHosts : Len(objs) < MaxGames /\ start(u)
    \/ \E u \in Humans : join(u)
    \/ \E u \in Humans, count \in 1..MaxBots :
        BotsEnrolled + count <= MaxBots /\ add_bot(u, count)
    \/ \E u \in Humans : begin(u)
    \/ \E t \in BagToSet(tasks) :
        begin_setup_from(t, shuffles(t.roles, MaxFairShuffles))
    \/ \E t \in BagToSet(tasks) : night_werewolves(t)
    \/ \E t \in BagToSet(tasks) : night_wolf_dm(t)
    \/ \E u \in Humans : seer_message(u, "center", None)
    \/ \E t \in BagToSet(tasks) : seer_handle(t)
    \/ \E t \in BagToSet(tasks), u \in Targets : seer_llm(t, u, "center", None)
    \/ \E t \in BagToSet(tasks) : seers_done(t)
    \/ \E u \in Humans : thief_message(u, "skip", None)
    \/ \E t \in BagToSet(tasks) : thief_handle(t)
    \/ \E t \in BagToSet(tasks), u \in Targets, target \in Targets :
        thief_llm(t, u, target)
    \/ \E t \in BagToSet(tasks) : thieves_done(t)
    \/ \E t \in BagToSet(tasks) : discussion_over(t)
    \/ \E t \in BagToSet(tasks) : voting_announced(t)
    \/ \E t \in BagToSet(tasks) : llm_votes_loop(t)
    \/ \E t \in BagToSet(tasks) : llm_vote_api(t, PEACE)
    \/ \E t \in BagToSet(tasks) : llm_vote_sent(t)
    \/ \E u \in Humans : vote(u, PEACE)
    \/ \E t \in BagToSet(tasks) : vote_confirmed(t)
    \/ \E t \in BagToSet(tasks) : end_voting_results(t)
    \/ \E t \in BagToSet(tasks) : end_voting_reset(t)

Fairness ==
    /\ WF_vars(\E t \in BagToSet(tasks) :
                  begin_setup_from(t, shuffles(t.roles, MaxFairShuffles)))
    /\ WF_vars(\E t \in BagToSet(tasks) : night_werewolves(t))
    /\ WF_vars(\E t \in BagToSet(tasks) : night_wolf_dm(t))
    /\ \A u \in Humans : WF_vars(seer_message(u, "center", None))
    /\ WF_vars(\E t \in BagToSet(tasks) : seer_handle(t))
    /\ WF_vars(\E t \in BagToSet(tasks), u \in Targets :
                  seer_llm(t, u, "center", None))
    /\ WF_vars(\E t \in BagToSet(tasks) : seers_done(t))
    /\ \A u \in Humans : WF_vars(thief_message(u, "skip", None))
    /\ WF_vars(\E t \in BagToSet(tasks) : thief_handle(t))
    /\ WF_vars(\E t \in BagToSet(tasks), u \in Targets, target \in Targets :
                  thief_llm(t, u, target))
    /\ WF_vars(\E t \in BagToSet(tasks) : thieves_done(t))
    /\ WF_vars(\E t \in BagToSet(tasks) : discussion_over(t))
    /\ WF_vars(\E t \in BagToSet(tasks) : voting_announced(t))
    /\ WF_vars(\E t \in BagToSet(tasks) : llm_votes_loop(t))
    /\ WF_vars(\E t \in BagToSet(tasks) : llm_vote_api(t, PEACE))
    /\ WF_vars(\E t \in BagToSet(tasks) : llm_vote_sent(t))
    /\ \A u \in Humans : WF_vars(vote(u, PEACE))
    /\ WF_vars(\E t \in BagToSet(tasks) : vote_confirmed(t))
    /\ WF_vars(\E t \in BagToSet(tasks) : end_voting_results(t))
    /\ WF_vars(\E t \in BagToSet(tasks) : end_voting_reset(t))

FairSpec == Init /\ [][FairNext]_vars /\ Fairness

-----------------------------------------------------------------------------
(* DaySpec: a round up to the opening of the vote, with the discussion: the *)
(* humans' channel messages, the AI players' speech coroutines, and the     *)
(* timer of start_day_phase.  The orchestrator at "discussion" with i = 0   *)
(* awaits the morning message, with i = 1 it sleeps DISCUSSION_TIME.        *)

\* GameState.add_discussion_message
add_discussion_message(g, speaker) ==
    [g EXCEPT !.discussion_history = Append(@, speaker)]

SpeechKinds ==
    {"initial_llm_statements", "auto_llm_speak_loop",
     "trigger_llm_discussion_for_player"}

\* the tasks that replace t, none when the coroutine is over
Replace(t, S) == (tasks (-) SetToBag({t})) (+) SetToBag(S)

\* auto_llm_speak_loop from the top of its while; recent: a message was
\* posted within the last 5 seconds; n: the index of the next speaker
auto_llm_speak_loop(t, g, recent, n) ==
    IF g.phase # "DISCUSSION" THEN {}
    ELSE IF recent
    THEN {[t EXCEPT !.kind = "auto_llm_speak_loop", !.pc = "pause"]}
    ELSE LET llm_players == get_llm_players(g)
         IN IF llm_players = <<>> THEN {}
            ELSE {[t EXCEPT !.kind = "auto_llm_speak_loop", !.pc = "sleep",
                            !.u = llm_players[IF n > Len(llm_players)
                                              THEN 1 ELSE n]]}

\* initial_llm_statements from the top of its loop for ids[i], followed by
\* auto_llm_speak_loop
initial_llm_statements(t, g, i, recent, n) ==
    IF i > Len(t.ids) \/ g.phase # "DISCUSSION"
    THEN auto_llm_speak_loop(t, g, recent, n)
    ELSE {[t EXCEPT !.pc = "sleep", !.i = i, !.u = t.ids[i]]}

\* start_day_phase after its message: create_task(initial_then_auto_speak),
\* then the sleep
day_announced(t) ==
    /\ t.kind = "begin" /\ t.pc = "discussion" /\ t.i = 0
    /\ tasks' = Replace(t,
          {[t EXCEPT !.i = 1]} \cup
          (IF get_llm_players(objs[t.g]) # <<>>
           THEN {NewTask("initial_llm_statements", "start", t.g)} ELSE {}))
    /\ UNCHANGED <<objs, registry, begun, last, llm>>

\* a timer that elapses only once no speech coroutine is in flight
day_over_quiet(t) ==
    /\ t.i = 1
    /\ \A s \in BagToSet(tasks) : s.g = t.g => s.kind \notin SpeechKinds
    /\ discussion_over(t)

\* start_day_phase after its sleep
day_over(t) == t.i = 1 /\ discussion_over(t)

\* on_message: a player's channel message during the discussion; mention is
\* the AI player it names, or None
on_message(u, mention) ==
    /\ registry # NoGame
    /\ LET game == objs[registry]
       IN /\ game.phase = "DISCUSSION"
          /\ u \in PlayerIds(game) /\ ~is_llm(u)
          /\ Len(game.discussion_history) < MaxHistory
          /\ mention # None => mention \in SeqToSet(get_llm_players(game))
          /\ objs' = [objs EXCEPT ![registry] = add_discussion_message(@, u)]
          /\ tasks' = IF mention = None THEN tasks
                      ELSE Spawn([NewTask("trigger_llm_discussion_for_player",
                                          "start", registry)
                                     EXCEPT !.u = mention])
    /\ UNCHANGED <<registry, begun, last, llm>>

\* a speech coroutine runs from its start to its first sleep
speak_start(t, recent, n) ==
    /\ t.kind \in SpeechKinds /\ t.pc = "start"
    /\ tasks' = Replace(t,
          IF t.kind = "trigger_llm_discussion_for_player"
          THEN IF recent \/ objs[t.g].phase # "DISCUSSION" THEN {}
               ELSE {[t EXCEPT !.pc = "sleep"]}
          ELSE initial_llm_statements(
                   [t EXCEPT !.ids = get_llm_players(objs[t.g])],
                   objs[t.g], 1, recent, n))
    /\ UNCHANGED <<objs, registry, begun, last, llm>>

\* after the sleep before an utterance: the phase is checked again
speak_woke(t) ==
    /\ t.kind \in SpeechKinds /\ t.pc = "sleep"
    /\ tasks' = Replace(t,
          IF objs[t.g].phase # "DISCUSSION" THEN {}
          ELSE {[t EXCEPT !.pc = "api"]})
    /\ UNCHANGED <<objs, registry, begun, last, llm>>

\* what follows an utterance that was not posted
RECURSIVE speak_on(_, _, _, _)
speak_on(t, g, recent, n) ==
    IF t.kind = "initial_llm_statements"
    THEN initial_llm_statements(t, g, t.i + 1, recent, n)
    ELSE IF t.kind = "auto_llm_speak_loop"
    THEN {[t EXCEPT !.pc = "interval"]}
    ELSE {}

\* llm_generate_discussion_message ends: a text, None or an exception
speak_api(t, response, recent, n) ==
    /\ t.kind \in SpeechKinds /\ t.pc = "api"
    /\ response \in {"text", "None", "raised"}
    /\ IF response = "text" /\ objs[t.g].phase = "DISCUSSION"
       THEN /\ Len(objs[t.g].discussion_history) < MaxHistory
            /\ t.u \in PlayerIds(objs[t.g])
            /\ objs' = [objs EXCEPT ![t.g] = add_discussion_message(@, t.u)]
            /\ tasks' = Replace(t, {[t EXCEPT !.pc = "sent"]})
       ELSE /\ objs' = objs
            /\ tasks' = Replace(t, speak_on(t, objs[t.g], recent, n))
    /\ UNCHANGED <<registry, begun, last, llm>>

\* the utterance is posted
speak_sent(t, recent, n) ==
    /\ t.kind \in SpeechKinds /\ t.pc = "sent"
    /\ tasks' = Replace(t, speak_on(t, objs[t.g], recent, n))
    /\ UNCHANGED <<objs, registry, begun, last, llm>>

\* auto_llm_speak_loop after sleep(AUTO_SPEAK_INTERVAL) or sleep(5)
speak_interval(t, recent, n) ==
    /\ t.kind = "auto_llm_speak_loop" /\ t.pc \in {"interval", "pause"}
    /\ tasks' = Replace(t, auto_llm_speak_loop(t, objs[t.g], recent, n))
    /\ UNCHANGED <<objs, registry, begun, last, llm>>

DayNext ==
    \/ \E u \in 1..MaxHosts : Len(objs) < MaxGames /\ start(u)
    \/ \E u \in Humans : join(u)
    \/ \E u \in Humans, count \in 1..MaxBots :
        BotsEnrolled + count <= MaxBots /\ add_bot(u, count)
    \/ \E u \in Humans : begin(u)
    \/ \E t \in BagToSet(tasks) : begin_setup(t)
    \/ \E t \in BagToSet(tasks) : night_werewolves(t)
    \/ \E t \in BagToSet(tasks) : night_wolf_dm(t)
    \/ \E u \in Humans : seer_message(u, "center", None)
    \/ \E t \in BagToSet(tasks) : seer_handle(t)
    \/ \E t \in BagToSet(tasks), u \in Targets : seer_llm(t, u, "center", None)
    \/ \E t \in BagToSet(tasks) : seers_done(t)
    \/ \E u \in Humans : thief_message(u, "skip", None)
    \/ \E t \in BagToSet(tasks) : thief_handle(t)
    \/ \E t \in BagToSet(tasks), u \in Targets, target \in Targets :
        thief_llm(t, u, target)
    \/ \E t \in BagToSet(tasks) : thieves_done(t)
    \/ \E t \in BagToSet(tasks) : day_announced(t)
    \/ \E u \in Humans, mention \in Targets \cup {None} : on_message(u, mention)
    \/ \E t \in BagToSet(tasks), recent \in BOOLEAN, n \in 1..MaxBots :
        speak_start(t, recent, n)
    \/ \E t \in BagToSet(tasks) : speak_woke(t)
    \/ \E t \in BagToSet(tasks), response \in {"text", "None", "raised"},
          recent \in BOOLEAN, n \in 1..MaxBots :
        speak_api(t, response, recent, n)
    \/ \E t \in BagToSet(tasks), recent \in BOOLEAN, n \in 1..MaxBots :
        speak_sent(t, recent, n)
    \/ \E t \in BagToSet(tasks), recent \in BOOLEAN, n \in 1..MaxBots :
        speak_interval(t, recent, n)
    \/ \E t \in BagToSet(tasks) : day_over(t)
    \/ \E t \in BagToSet(tasks) : voting_announced(t)

\* the event loop resumes the orchestrator at every await that can complete
DayFairness ==
    /\ WF_vars(\E t \in BagToSet(tasks) : day_announced(t))
    /\ WF_vars(\E t \in BagToSet(tasks) : day_over(t))

DaySpec == Init /\ [][DayNext]_vars /\ DayFairness

-----------------------------------------------------------------------------
(* SpeechSpec: one discussion of host 1 and MaxSpeakers AI players, with    *)
(* the speaker cursor _next_llm_speaker_index of the channel held in        *)
(* llm.next_llm_speaker_index.  Each run of a speech coroutine is recorded  *)
(* in last: the coroutine, the await it resumed from, the response of       *)
(* llm_generate_discussion_message, whether the utterance was made, whether *)
(* the cooldown skipped the iteration, the cursor before the run and the    *)
(* loop's local current_index.                                              *)

\* the composition of the discussion's round: a Werewolf and Villagers
SpeechRoles(n) == <<"WEREWOLF">> \o Pad("VILLAGER", n + CENTER_CARD_COUNT - 1)

\* the GameState when start_day_phase has set DISCUSSION: the roster of
\* /onj start and /onj add_bot, the deal, the night of the host's Werewolf
DiscussionRound ==
    LET g == add_bots(add_player(NewGameState(1), 1), MaxSpeakers, 0)
        role_list == SpeechRoles(player_count(g))
        dealt == setup_game([g EXCEPT !.custom_role_config = role_list],
                            role_list, role_list).g
    IN process_seers(advance_night_phase(process_werewolf_night(dealt))).g

\* the cursor is kept from one round of the channel to the next
SpeechInit ==
    /\ objs = <<DiscussionRound>>
    /\ registry = 1
    /\ tasks = SetToBag({NewTask("begin", "discussion", 1)})
    /\ begun = 1
    /\ last = NoCall
    /\ \E index \in 0..MaxSpeakers :
        llm = [NewLlm EXCEPT !.next_llm_speaker_index = index]

\* the runs of the speech coroutines so far
SpeechSteps == IF last.op = "none" THEN 0 ELSE last.ret.nth

\* "if response and game.phase == GamePhase.DISCUSSION" without the phase
utters_any_phase(g, response) == response = "text"

\* the test before an utterance is appended and posted
utters(g, response) == response = "text" /\ g.phase = "DISCUSSION"

\* the speech coroutine t runs up to the tasks S; when the run passes
\* auto_llm_speak_loop's selection of a speaker the cursor is read, clamped
\* and advanced
speech_run(t, S, step, response) ==
    LET llm_players == get_llm_players(objs[t.g])
        index == llm.next_llm_speaker_index
        current_index == IF index >= Len(llm_players) THEN 0 ELSE index
        selected == \E x \in S : x.kind = "auto_llm_speak_loop"
                                    /\ x.pc = "sleep"
    IN /\ tasks' = Replace(t, {IF selected
                               THEN [x EXCEPT !.i = current_index]
                               ELSE x : x \in S})
       /\ llm' = IF selected
                 THEN [llm EXCEPT !.next_llm_speaker_index =
                            (current_index + 1) % Len(llm_players)]
                 ELSE llm
       /\ last' = Call(t.kind,
              [step |-> step, response |-> response,
               said |-> utters(objs[t.g], response),
               skipped |-> \E x \in S : x.pc = "pause",
               index |-> index, current_index |-> t.i,
               nth |-> SpeechSteps + 1])

\* a speech coroutine runs from its start to its first sleep
S_speak_start(t, recent) ==
    /\ t.kind \in SpeechKinds /\ t.pc = "start"
    /\ speech_run(t,
          IF t.kind = "trigger_llm_discussion_for_player"
          THEN IF recent \/ objs[t.g].phase # "DISCUSSION" THEN {}
               ELSE {[t EXCEPT !.pc = "sleep"]}
          ELSE initial_llm_statements(
                   [t EXCEPT !.ids = get_llm_players(objs[t.g])],
                   objs[t.g], 1, recent, llm.next_llm_speaker_index + 1),
          "start", "None")
    /\ UNCHANGED <<objs, registry, begun>>

\* llm_generate_discussion_message ends: a text, None or an exception
S_speak_api(t, response, recent) ==
    /\ t.kind \in SpeechKinds /\ t.pc = "api"
    /\ response \in {"text", "None", "raised"}
    /\ IF utters(objs[t.g], response)
       THEN /\ t.u \in PlayerIds(objs[t.g])
            /\ objs' = [objs EXCEPT ![t.g] = add_discussion_message(@, t.u)]
            /\ speech_run(t, {[t EXCEPT !.pc = "sent"]}, "api", response)
       ELSE /\ objs' = objs
            /\ speech_run(t, speak_on(t, objs[t.g], recent,
                                      llm.next_llm_speaker_index + 1),
                          "api", response)
    /\ UNCHANGED <<registry, begun>>

\* the utterance is posted
S_speak_sent(t, recent) ==
    /\ t.kind \in SpeechKinds /\ t.pc = "sent"
    /\ speech_run(t, speak_on(t, objs[t.g], recent,
                              llm.next_llm_speaker_index + 1),
                  "sent", "text")
    /\ UNCHANGED <<objs, registry, begun>>

\* auto_llm_speak_loop after sleep(AUTO_SPEAK_INTERVAL) or sleep(5)
S_speak_interval(t, recent) ==
    /\ t.kind = "auto_llm_speak_loop" /\ t.pc \in {"interval", "pause"}
    /\ speech_run(t, auto_llm_speak_loop(t, objs[t.g], recent,
                                         llm.next_llm_speaker_index + 1),
                  "interval", "None")
    /\ UNCHANGED <<objs, registry, begun>>

Speakers == {-1000 - k : k \in 0..(MaxSpeakers - 1)}

SpeechNext ==
    \/ \E t \in BagToSet(tasks) : day_announced(t)
    \/ \E t \in BagToSet(tasks) : day_over(t)
    \/ \E u \in Humans, mention \in Speakers \cup {None} :
        on_message(u, mention)
    \/ \E t \in BagToSet(tasks), recent \in BOOLEAN :
        SpeechSteps < MaxSpeechSteps /\ S_speak_start(t, recent)
    \/ \E t \in BagToSet(tasks) : speak_woke(t)
    \/ \E t \in BagToSet(tasks), response \in {"text", "None", "raised"},
          recent \in BOOLEAN :
        SpeechSteps < MaxSpeechSteps /\ S_speak_api(t, response, recent)
    \/ \E t \in BagToSet(tasks), recent \in BOOLEAN :
        SpeechSteps < MaxSpeechSteps /\ S_speak_sent(t, recent)
    \/ \E t \in BagToSet(tasks), recent \in BOOLEAN :
        SpeechSteps < MaxSpeechSteps /\ S_speak_interval(t, recent)

SpeechSpec == SpeechInit /\ [][SpeechNext]_vars

-----------------------------------------------------------------------------
(* LobbySpec: the commands that change the registry (start, cancel, the    *)
(* host's leave) with join, add_bot and begin, and the orchestrator of      *)
(* every begun round run up to the werewolves' step                         *)

LobbyNext ==
    \/ \E u \in Humans : Len(objs) < MaxLobbyGames /\ start(u)
    \/ \E u \in Humans : join(u)
    \/ \E u \in Humans : leave(u)
    \/ \E u \in Humans : cancel(u)
    \/ \E u \in Humans, count \in 1..MaxBots :
        BotsEnrolled + count <= MaxBots /\ add_bot(u, count)
    \/ \E u \in Humans : begin(u)
    \/ \E t \in BagToSet(tasks) : begin_setup(t)
    \/ \E t \in BagToSet(tasks) : night_werewolves(t)

LobbySpec == Init /\ [][LobbyNext]_vars

-----------------------------------------------------------------------------
(* RosterSpec: the commands that change the roster of one GameState, with   *)
(* every count add_bot accepts, and begin up to the deal                    *)

\* the smallest and largest count add_bot accepts
MIN_ADD == 1
MAX_ADD == 7

RosterNext ==
    \/ \E u \in Humans : Len(objs) < MaxGames /\ start(u)
    \/ \E u \in Humans : join(u)
    \/ \E u \in Humans : leave(u)
    \/ \E u \in Humans, count \in MIN_ADD..MAX_ADD : add_bot(u, count)
    \/ \E u \in Humans, count \in 0..MaxRemove : remove_bot(u, count)
    \/ \E u \in Humans : begin(u)
    \/ \E t \in BagToSet(tasks) : begin_setup(t)

RosterSpec == Init /\ [][RosterNext]_vars

-----------------------------------------------------------------------------
(* ApiSpec: call_grok_api.  A call is a task suspended at the rate-limit    *)
(* sleep ("interval"), at client.post ("post") or at the sleep before a     *)
(* retry ("retry_sleep"); a call that is over stays in tasks as "returned"  *)
(* with what its caller receives.                                           *)

\* max_retries: int = 3
DEFAULT_MAX_RETRIES == 3

\* what one client.post attempt ends in: a completion, raise_for_status
\* raising HTTPStatusError, a transport error, a body without the expected
\* keys, a body that is not JSON
HttpErrors == {"status_401", "status_403", "status_500"}
TransportErrors == {"RequestError", "SSLError"}
ParseErrors == {"KeyError", "IndexError"}
PostOutcomes ==
    {"ok", "JSONDecodeError"} \cup HttpErrors \cup TransportErrors
        \cup ParseErrors

\* a call at its first await, or returned at once without an API key
NewCall(max_retries, api_key, wait) ==
    [kind |-> "call_grok_api", max_retries |-> max_retries, attempt |-> 0,
     outcomes |-> <<>>, waits |-> <<>>,
     pc |-> IF ~api_key THEN "returned"
            ELSE IF wait THEN "interval" ELSE "post",
     ret |-> IF ~api_key THEN "None" ELSE ""]

\* the retry policy with HTTPStatusError handled as a transport error
post_retrying(c, outcome) ==
    LET c1 == [c EXCEPT !.outcomes = Append(@, outcome)]
    IN IF outcome = "ok"
       THEN [c1 EXCEPT !.pc = "returned", !.ret = "content"]
       ELSE IF outcome \in TransportErrors \cup HttpErrors
       THEN IF c.attempt < c.max_retries - 1
            THEN [c1 EXCEPT !.pc = "retry_sleep",
                            !.waits = Append(@, (c.attempt + 1) * 1)]
            ELSE [c1 EXCEPT !.pc = "returned", !.ret = "None"]
       ELSE IF outcome \in ParseErrors
       THEN [c1 EXCEPT !.pc = "returned", !.ret = "None"]
       ELSE [c1 EXCEPT !.pc = "returned", !.ret = "raised"]

\* call_grok_api: the body of the for loop after client.post ends in outcome
post_returned(c, outcome) ==
    LET c1 == [c EXCEPT !.outcomes = Append(@, outcome)]
    IN IF outcome = "ok"
       THEN [c1 EXCEPT !.pc = "returned", !.ret = "content"]
       ELSE IF outcome \in HttpErrors
       THEN [c1 EXCEPT !.pc = "returned", !.ret = "None"]
       ELSE IF outcome \in TransportErrors
       THEN IF c.attempt < c.max_retries - 1
            THEN [c1 EXCEPT !.pc = "retry_sleep",
                            !.waits = Append(@, (c.attempt + 1) * 1)]
            ELSE [c1 EXCEPT !.pc = "returned", !.ret = "None"]
       ELSE IF outcome \in ParseErrors
       THEN [c1 EXCEPT !.pc = "returned", !.ret = "None"]
       ELSE [c1 EXCEPT !.pc = "returned", !.ret = "raised"]

Calls == {c \in BagToSet(tasks) : c.kind = "call_grok_api"}

\* call_grok_api up to its first await
call_grok_api(max_retries, api_key, wait) ==
    /\ BagCardinality(tasks) < MaxCalls
    /\ tasks' = Spawn(NewCall(max_retries, api_key, wait))
    /\ UNCHANGED <<objs, registry, begun, last, llm>>

\* the rate-limit sleep is over
api_interval(c) ==
    /\ c.kind = "call_grok_api" /\ c.pc = "interval"
    /\ tasks' = Become(c, [c EXCEPT !.pc = "post"])
    /\ UNCHANGED <<objs, registry, begun, last, llm>>

\* client.post ends
api_post(c, outcome) ==
    /\ c.kind = "call_grok_api" /\ c.pc = "post"
    /\ tasks' = Become(c, post_returned(c, outcome))
    /\ UNCHANGED <<objs, registry, begun, last, llm>>

\* the sleep before a retry is over: the next iteration of the for loop
api_retry(c) ==
    /\ c.kind = "call_grok_api" /\ c.pc = "retry_sleep"
    /\ tasks' = Become(c, [c EXCEPT !.attempt = @ + 1, !.pc = "post"])
    /\ UNCHANGED <<objs, registry, begun, last, llm>>

ApiNext ==
    \/ \E max_retries \in 1..MaxRetries, api_key \in BOOLEAN, wait \in BOOLEAN :
        call_grok_api(max_retries, api_key, wait)
    \/ \E c \in BagToSet(tasks) : api_interval(c)
    \/ \E c \in BagToSet(tasks), outcome \in PostOutcomes : api_post(c, outcome)
    \/ \E c \in BagToSet(tasks) : api_retry(c)

ApiSpec == Init /\ [][ApiNext]_vars

-----------------------------------------------------------------------------
(* PersonaSpec: add_bot with the personas and remove_bot on one GameState   *)
(* whose host is enrolled under a display name of its own or under the      *)
(* name of a persona.  A persona is held as its index in LLM_CHARACTERS:    *)
(* the name is the player's username, the index stands for the personality, *)
(* speech_style and emoji that add_bot assigns together.                    *)

\* LLM_CHARACTERS: the names, in Latin script
LLM_CHARACTERS ==
    <<"Alice", "Bob", "Charlie", "Diana", "Emily", "Frank", "Grace">>

\* GameState.add_player(user_id, username, is_llm)
add_player_as(g, user_id, username) ==
    IF user_id \in PlayerIds(g) THEN g
    ELSE [g EXCEPT !.order = Append(@, user_id),
                   !.players = [u \in PlayerIds(g) \cup {user_id} |->
                                  IF u = user_id
                                  THEN [NewPlayer EXCEPT !.username = username]
                                  ELSE g.players[u]]]

\* the personality, speech_style and emoji of a player, 0 when never assigned
personality(player) ==
    IF "personality" \in DOMAIN player THEN player.personality ELSE 0

\* player.personality, player.speech_style, player.emoji = those of index
assign_character(player, index) ==
    [f \in DOMAIN player \cup {"personality"} |->
        IF f = "personality" THEN index ELSE player[f]]

\* the outcomes of random.choice(available) the model follows: the
\* MaxChoices lowest
choices(available) ==
    {i \in available :
        Cardinality({j \in available : j < i}) < MaxChoices}

\* get_next_llm_character: the index chosen and _used_character_indices
\* after, for every outcome of random.choice
get_next_llm_character(used, existing_names) ==
    LET all == 1..Len(LLM_CHARACTERS)
        unused == {i \in all : i \notin used
                                /\ LLM_CHARACTERS[i] \notin existing_names}
        used1 == IF unused = {} THEN {} ELSE used
        unnamed == IF unused = {}
                   THEN {i \in all : LLM_CHARACTERS[i] \notin existing_names}
                   ELSE unused
        available == IF unnamed = {} THEN all ELSE unnamed
    IN {[index |-> i, used |-> used1 \cup {i}] : i \in choices(available)}

\* add_bot: llm_id = -1000 - game.llm_player_count - len(added_names)
llm_id_of(g, added) == -1000 - Len(get_llm_players(g)) - added

\* add_bot: the loop over range(count), for every outcome of random.choice:
\* the roster and _used_character_indices after
RECURSIVE add_bot_personas(_, _, _, _, _)
add_bot_personas(g, used, existing_names, count, added) ==
    IF count = 0 THEN {[g |-> g, used |-> used]}
    ELSE UNION {
        LET llm_id == llm_id_of(g, added)
            name == LLM_CHARACTERS[c.index]
            g1 == add_player_as(g, llm_id, name)
            g2 == IF llm_id \in PlayerIds(g1)
                  THEN [g1 EXCEPT !.players[llm_id] =
                            assign_character(@, c.index)]
                  ELSE g1
        IN add_bot_personas(g2, c.used, existing_names \cup {name},
                            count - 1, added + 1)
        : c \in get_next_llm_character(used, existing_names)}

\* the display names the host is enrolled under
HostNames == {display_name(1), LLM_CHARACTERS[1]}

\* after /onj start by user 1
PersonaInit ==
    /\ \E username \in HostNames :
        objs = <<add_player_as(NewGameState(1), 1, username)>>
    /\ registry = 1
    /\ tasks = EmptyBag
    /\ begun = 0
    /\ last = NoCall
    /\ llm = NewLlm

\* the commands issued so far
Commands == IF last.op = "none" THEN 0 ELSE last.ret.nth

\* /onj add_bot count by the host, with an API key set; last holds the
\* count and the roster the command found
P_add_bot(count) ==
    /\ Commands < MaxCommands
    /\ LG.phase = "WAITING"
    /\ count >= 1 /\ count <= 7
    /\ player_count(LG) + count <= MAX_PLAYERS
    /\ \E r \in add_bot_personas(LG, llm.used_character_indices,
                {LG.players[u].username : u \in PlayerIds(LG)}, count, 0) :
        /\ objs' = <<r.g>>
        /\ llm' = [llm EXCEPT !.used_character_indices = r.used]
    /\ last' = Call("add_bot",
                    [count |-> count, game |-> LG, nth |-> Commands + 1])
    /\ UNCHANGED <<registry, tasks, begun>>

\* /onj remove_bot count by the host; count = 0 removes every AI player
P_remove_bot(count) ==
    /\ Commands < MaxCommands
    /\ LG.phase = "WAITING"
    /\ LET llm_players == get_llm_players(LG)
       IN /\ llm_players # <<>>
          /\ objs' = <<remove_bots(LG, llm_players,
                            IF count = 0 THEN Len(llm_players) ELSE count)>>
    /\ last' = Call("remove_bot", [count |-> count, nth |-> Commands + 1])
    /\ UNCHANGED <<registry, tasks, begun, llm>>

PersonaNext ==
    \/ \E count \in MIN_ADD..MaxPersonaAdd : P_add_bot(count)
    \/ \E count \in 0..MaxPersonaRemove : P_remove_bot(count)

PersonaSpec == PersonaInit /\ [][PersonaNext]_vars

-----------------------------------------------------------------------------
(* RoleSpec: /onj roles and the controls of RoleConfigView on a GameState   *)
(* of MIN_PLAYERS players in WAITING.  A view is held in tasks with the     *)
(* host_id it was created with (u) and pc "open", or "stopped" after        *)
(* self.stop(); last holds the control pressed last and the user.           *)

\* the roles whose buttons are pressed, of AVAILABLE_ROLES
EditorRoles == {"VILLAGER", "WEREWOLF"}

\* the users who press: the host, an enrolled player, one who is not enrolled
EditorUsers == 1..(MIN_PLAYERS + 1)

\* RoleConfigView._get_current_roles
get_current_roles(g) ==
    IF g.custom_role_config # NoConfig THEN g.custom_role_config
    ELSE ROLE_CONFIG(player_count(g))

\* list.remove: without the first occurrence of x
RECURSIVE list_remove(_, _)
list_remove(xs, x) ==
    IF xs = <<>> THEN <<>>
    ELSE IF Head(xs) = x THEN Tail(xs)
    ELSE <<Head(xs)>> \o list_remove(Tail(xs), x)

Views == {v \in BagToSet(tasks) : v.kind = "RoleConfigView"}

\* /onj roles
roles(u) ==
    /\ registry # NoGame
    /\ objs[registry].phase = "WAITING"
    /\ u = objs[registry].host_id
    /\ player_count(objs[registry]) >= MIN_PLAYERS
    /\ tasks' = Spawn([NewTask("RoleConfigView", "open", registry)
                            EXCEPT !.u = u])
    /\ UNCHANGED <<objs, registry, begun, last, llm>>

\* a control of an open view is pressed by user: the game after
Pressed(v, control, user, game) ==
    /\ v.kind = "RoleConfigView" /\ v.pc = "open"
    /\ Commands < MaxPresses
    /\ objs' = [objs EXCEPT ![v.g] = game]
    /\ last' = Call(control, [user |-> user, nth |-> Commands + 1])
    /\ UNCHANGED <<registry, begun, llm>>

\* the callback of "+role"
add_callback(v, user, role) ==
    /\ Pressed(v, "add", user,
            IF user # v.u THEN objs[v.g]
            ELSE [objs[v.g] EXCEPT !.custom_role_config =
                        Append(get_current_roles(objs[v.g]), role)])
    /\ UNCHANGED tasks

\* the callback of "-role"
remove_callback(v, user, role) ==
    /\ Pressed(v, "remove", user,
            IF user # v.u THEN objs[v.g]
            ELSE IF role \in SeqToSet(get_current_roles(objs[v.g]))
            THEN [objs[v.g] EXCEPT !.custom_role_config =
                        list_remove(get_current_roles(objs[v.g]), role)]
            ELSE objs[v.g])
    /\ UNCHANGED tasks

\* _reset_callback
reset_callback(v, user) ==
    /\ Pressed(v, "reset", user,
            IF user # v.u THEN objs[v.g]
            ELSE [objs[v.g] EXCEPT !.custom_role_config = NoConfig])
    /\ UNCHANGED tasks

\* a Done that closes the editor whatever the total
done_any_total(g, host_id, user) == user = host_id

\* _done_callback: self.stop() is reached
done_accepted(g, host_id, user) ==
    /\ user = host_id
    /\ Len(get_current_roles(g)) = player_count(g) + CENTER_CARD_COUNT

\* _done_callback
done_callback(v, user) ==
    /\ Pressed(v, "done", user, objs[v.g])
    /\ tasks' = IF done_accepted(objs[v.g], v.u, user)
                THEN Become(v, [v EXCEPT !.pc = "stopped"])
                ELSE tasks

\* after /onj start by user 1 and two /onj join
RoleInit ==
    /\ objs = <<Enroll(NewGameState(1), MIN_PLAYERS)>>
    /\ registry = 1
    /\ tasks = EmptyBag
    /\ begun = 0
    /\ last = NoCall
    /\ llm = NewLlm

RoleNext ==
    \/ \E u \in EditorUsers : BagCardinality(tasks) < MaxViews /\ roles(u)
    \/ \E v \in BagToSet(tasks), u \in EditorUsers, role \in EditorRoles :
        Len(get_current_roles(objs[v.g])) < MaxConfig
            /\ add_callback(v, u, role)
    \/ \E v \in BagToSet(tasks), u \in EditorUsers, role \in EditorRoles :
        remove_callback(v, u, role)
    \/ \E v \in BagToSet(tasks), u \in EditorUsers : reset_callback(v, u)
    \/ \E v \in BagToSet(tasks), u \in EditorUsers : done_callback(v, u)

RoleSpec == RoleInit /\ [][RoleNext]_vars

\* EditorSpec: the role editor with /onj begin; a view stays open until its
\* done control accepts or its timeout of 300 seconds, whatever the phase
EditorNext ==
    \/ RoleNext
    \/ \E u \in EditorUsers : begin(u)
    \/ \E t \in BagToSet(tasks) : begin_setup(t)

EditorSpec == RoleInit /\ [][EditorNext]_vars

-----------------------------------------------------------------------------
(* RevengeSpec: the vote and the end of a round of MIN_PLAYERS players      *)
(* dealt from a custom composition that may hold more than one Hunter.      *)
(* last holds the Hunters process_hunter_revenge has prompted so far, the   *)
(* target the last one named and what add_hunter_target_to_execution        *)
(* returned for it.                                                         *)

\* the roles dealt to the players; the center cards are two Villagers
RevengeRoles == {"HUNTER", "VILLAGER", "WEREWOLF"}

\* a round at the opening of the vote: setup_game has dealt dealt[u] to
\* player u, nobody has swapped, the night is over
VotingRound(dealt) ==
    LET g == Enroll(NewGameState(1), MIN_PLAYERS)
    IN [g EXCEPT
          !.phase = "VOTING",
          !.players = [u \in PlayerIds(g) |->
                         [g.players[u] EXCEPT !.initial_role = dealt[u],
                                              !.current_role = dealt[u]]],
          !.center_cards = <<"VILLAGER", "VILLAGER">>,
          !.custom_role_config =
              [i \in 1..(MIN_PLAYERS + CENTER_CARD_COUNT) |->
                  IF i <= MIN_PLAYERS THEN dealt[i] ELSE "VILLAGER"],
          !.night_action_order = NIGHT_ACTION_ORDER,
          !.night_action_index = Len(NIGHT_ACTION_ORDER) + 1]

RevengeInit ==
    /\ \E dealt \in [1..MIN_PLAYERS -> RevengeRoles] :
        objs = <<VotingRound(dealt)>>
    /\ registry = 1
    /\ tasks = EmptyBag
    /\ begun = 1
    /\ last = NoCall
    /\ llm = NewLlm

\* the Hunters prompted so far
Prompted == IF last.op = "none" THEN {} ELSE last.ret.prompted

\* end_voting_phase in process_hunter_revenge: the Hunter ids[i] has been
\* prompted and names a target or nobody
R_hunter_revenge(t, target) ==
    /\ t.pc = "revenge"
    /\ target \in (PlayerIds(objs[t.g]) \ {t.ids[t.i]}) \cup {None}
    /\ Run(t, process_hunter_revenge(objs[t.g], t.ids, t.i, target))
    /\ last' = Call("process_hunter_revenge",
            [prompted |-> Prompted \cup {t.ids[t.i]}, target |-> target,
             appended |-> IF target = None THEN FALSE
                          ELSE add_hunter_target_to_execution(
                                   objs[t.g], target).ret])
    /\ UNCHANGED <<registry, begun, llm>>

\* end_voting_phase after the results: determine_winner
R_determine_winner(t) ==
    /\ t.pc = "results"
    /\ Run(t, At(determine_winner(objs[t.g]), "winner"))
    /\ last' = Call("determine_winner",
            [prompted |-> Prompted, target |-> None, appended |-> FALSE])
    /\ UNCHANGED <<registry, begun, llm>>

RevengeNext ==
    \/ \E u \in 1..MIN_PLAYERS, player \in (1..MIN_PLAYERS) \cup {PEACE} :
        vote(u, player)
    \/ \E t \in BagToSet(tasks) : vote_confirmed(t)
    \/ \E t \in BagToSet(tasks), target \in (1..MIN_PLAYERS) \cup {None} :
        R_hunter_revenge(t, target)
    \/ \E t \in BagToSet(tasks) : R_determine_winner(t)

RevengeSpec == RevengeInit /\ [][RevengeNext]_vars

-----------------------------------------------------------------------------
(* RateSpec: the rate limit of call_grok_api against the clock.  llm.time   *)
(* is time.time() in whole seconds; a call is a task suspended at the       *)
(* rate-limit sleep ("sleep", due at wake), at client.post ("post") or at   *)
(* the sleep before a retry ("retry_sleep", due at wake).  asyncio.sleep    *)
(* resumes its caller no earlier than the delay asked for.                  *)

\* _last_api_call_time = time.time(), and client.post is called
posted(m) ==
    [m EXCEPT !.last_api_call_time = m.time, !.posts = Append(@, m.time)]

\* call_grok_api with an API key, from the rate limit to its first await:
\* the sleep when the last call is less than API_CALL_INTERVAL old, else
\* client.post
rate_call ==
    LET elapsed == llm.time - llm.last_api_call_time
    IN /\ BagCardinality(tasks) < MaxRateCalls
       /\ IF elapsed < API_CALL_INTERVAL
          THEN /\ tasks' = Spawn([kind |-> "rate_limit", pc |-> "sleep",
                                  attempt |-> 0,
                                  wake |-> llm.time
                                           + (API_CALL_INTERVAL - elapsed)])
               /\ llm' = llm
          ELSE /\ tasks' = Spawn([kind |-> "rate_limit", pc |-> "post",
                                  attempt |-> 0, wake |-> llm.time])
               /\ llm' = posted(llm)
       /\ UNCHANGED <<objs, registry, begun, last>>

\* the rate-limit sleep is over: _last_api_call_time is set and client.post
\* is called
rate_woke(c) ==
    /\ c.kind = "rate_limit" /\ c.pc = "sleep"
    /\ c.wake <= llm.time
    /\ tasks' = Become(c, [c EXCEPT !.pc = "post"])
    /\ llm' = posted(llm)
    /\ UNCHANGED <<objs, registry, begun, last>>

\* client.post ends: a completion or an error that is not retried returns,
\* a transport error sleeps (attempt + 1) * 1 seconds before the next attempt
rate_posted(c, outcome) ==
    /\ c.kind = "rate_limit" /\ c.pc = "post"
    /\ LET r == post_returned([attempt |-> c.attempt,
                               max_retries |-> DEFAULT_MAX_RETRIES,
                               outcomes |-> <<>>, waits |-> <<>>,
                               pc |-> "post", ret |-> ""], outcome)
       IN tasks' = Become(c, [c EXCEPT !.pc = r.pc,
                                       !.wake = IF r.pc = "retry_sleep"
                                                THEN llm.time + r.waits[1]
                                                ELSE @])
    /\ UNCHANGED <<objs, registry, begun, last, llm>>

\* the sleep before a retry is over: client.post is called again, the rate
\* limit is not consulted
rate_retry(c) ==
    /\ c.kind = "rate_limit" /\ c.pc = "retry_sleep"
    /\ c.wake <= llm.time
    /\ tasks' = Become(c, [c EXCEPT !.attempt = @ + 1, !.pc = "post"])
    /\ llm' = [llm EXCEPT !.posts = Append(@, llm.time)]
    /\ UNCHANGED <<objs, registry, begun, last>>

\* a second passes
tick ==
    /\ llm.time < MaxTime
    /\ llm' = [llm EXCEPT !.time = @ + 1]
    /\ UNCHANGED <<objs, registry, tasks, begun, last>>

RateNext ==
    \/ rate_call
    \/ \E c \in BagToSet(tasks) : rate_woke(c)
    \/ \E c \in BagToSet(tasks), outcome \in {"ok", "RequestError"} :
        rate_posted(c, outcome)
    \/ \E c \in BagToSet(tasks) : rate_retry(c)
    \/ tick

RateSpec == Init /\ [][RateNext]_vars

-----------------------------------------------------------------------------
(* Properties of game/logic.py, checked under LogicSpec *)

RoleCount(s, r) == Cardinality({i \in 1..Len(s) : s[i] = r})

\* how many cards of role r the players (current roles) and the center hold
HeldCount(g, r) ==
    Cardinality({u \in PlayerIds(g) : g.players[u].current_role = r})
        + RoleCount(g.center_cards, r)

ValidLists(g) == {rl \in RoleListInputs : Len(rl) = player_count(g) + 2}

Dealt(g) ==
    /\ \A u \in PlayerIds(g) :
        /\ g.players[u].initial_role = g.players[u].current_role
        /\ g.players[u].current_role \in Roles
    /\ Len(g.center_cards) = 2
    /\ g.phase = "NIGHT"
    /\ g.night_action_index = 0

\* C1: setup_game with a role list of length player count + 2 gives every
\* player one role (initial = current), leaves 2 center cards, deals exactly
\* the multiset of the input list, and sets phase Night and night cursor 0.
C1_RoleDistribution ==
    /\ LG.phase = "WAITING" =>
        \A rl \in ValidLists(LG) : \A s \in shuffle(rl) :
            LET r == setup_game(LG, rl, s)
            IN /\ r.ret = "ok"
               /\ PlayerIds(r.g) = PlayerIds(LG)
               /\ Dealt(r.g)
               /\ \A role \in Roles : HeldCount(r.g, role) = RoleCount(rl, role)
    /\ (last.op = "setup_game" /\ last.ret = "ok") =>
        /\ Dealt(LG)
        /\ \E rl \in ValidLists(LG) :
            \A role \in Roles : HeldCount(LG, role) = RoleCount(rl, role)

C1_Witness ==
    /\ last.op = "setup_game" /\ last.ret = "ok"
    /\ LG.phase = "NIGHT"
    /\ \E u \in PlayerIds(LG) : LG.players[u].current_role = "THIEF"
    /\ "WEREWOLF" \in SeqToSet(LG.center_cards)

Undealt(g) ==
    /\ g.phase = "WAITING"
    /\ g.center_cards = <<>>
    /\ g.night_action_order = <<>>
    /\ g.night_action_index = 0
    /\ \A u \in PlayerIds(g) :
          [g.players[u] EXCEPT !.username = ""] = NewPlayer

\* C2: setup_game with a role list whose length differs from player count + 2
\* raises, and no player role, center card, night order, cursor or phase
\* changes.
C2_WrongLengthRejected ==
    /\ LG.phase = "WAITING" =>
        \A rl \in RoleListInputs \ ValidLists(LG) : \A s \in shuffle(rl) :
            LET r == setup_game(LG, rl, s)
            IN r.ret = "ValueError" /\ r.g = LG
    /\ (last.op = "setup_game" /\ last.ret = "ValueError") => Undealt(LG)

C2_Witness ==
    /\ last.op = "setup_game" /\ last.ret = "ValueError"
    /\ LG.phase = "WAITING"
    /\ player_count(LG) = MIN_PLAYERS

Voters(g, t) == {u \in PlayerIds(g) : g.players[u].vote_target_id = t}

\* the weighted votes cast for t: one per voter and one more per Mayor
Tally(g, t) ==
    Cardinality(Voters(g, t))
        + Cardinality({u \in Voters(g, t) : g.players[u].current_role = "MAYOR"})

MaxTally(g) == MaxOf({Tally(g, t) : t \in PlayerIds(g) \cup {PEACE}})

AtMax(g) ==
    {u \in PlayerIds(g) : MaxTally(g) > 0 /\ Tally(g, u) = MaxTally(g)}

\* C3: determine_execution returns exactly the players whose weighted tally
\* equals the maximum over all players and -1, nobody when the maximum is 0,
\* and never -1.
C3_Execution ==
    /\ LG.phase = "VOTING" =>
        LET ret == determine_execution(LG).ret
        IN /\ SeqToSet(ret) = AtMax(LG)
           /\ Len(ret) = Cardinality(AtMax(LG))
           /\ PEACE \notin SeqToSet(ret)
    /\ last.op = "determine_execution" =>
        SeqToSet(LG.executed_player_ids) = AtMax(LG)

\* peace village tied at the maximum with two players, who are both executed
C3_Witness ==
    /\ last.op = "determine_execution"
    /\ Tally(LG, PEACE) = MaxTally(LG)
    /\ Cardinality(AtMax(LG)) = 2
    /\ SeqToSet(LG.executed_player_ids) = AtMax(LG)

ExecutedPlayers(g) == SeqToSet(g.executed_player_ids) \cap PlayerIds(g)

TannerExecuted(g) ==
    \E u \in ExecutedPlayers(g) : g.players[u].current_role = "TANNER"

WolfExecuted(g) ==
    \E u \in ExecutedPlayers(g) :
        g.players[u].current_role \in {"WEREWOLF", "ALPHA_WOLF"}

WolvesInPlay(g) ==
    \E u \in PlayerIds(g) :
        g.players[u].current_role \in {"WEREWOLF", "ALPHA_WOLF"}

Resolving(g) == g.phase = "ENDED" /\ g.winners = <<>>

\* C4: when an executed player's current role is Tanner, the winners are
\* exactly [Tanner], whether or not a wolf is executed too.
C4_TannerRule ==
    /\ (Resolving(LG) /\ TannerExecuted(LG)) => winners_of(LG) = <<"TANNER">>
    /\ (last.op = "determine_winner" /\ TannerExecuted(LG)) =>
        LG.winners = <<"TANNER">>

C4_Witness ==
    /\ last.op = "determine_winner"
    /\ TannerExecuted(LG) /\ WolfExecuted(LG)
    /\ LG.winners = <<"TANNER">>

WolvesCase(g, w) ==
    /\ g.executed_player_ids = <<>> => w = <<"WEREWOLF">>
    /\ WolfExecuted(g) => w = <<"VILLAGE">>
    /\ (g.executed_player_ids # <<>> /\ ~WolfExecuted(g)) => w = <<"WEREWOLF">>

\* C5: with a wolf in play and no Tanner executed, no execution gives
\* [Werewolf], an executed wolf gives [Village], and executions none of which
\* is a wolf give [Werewolf].
C5_WolvesInPlay ==
    /\ (Resolving(LG) /\ WolvesInPlay(LG) /\ ~TannerExecuted(LG)) =>
        WolvesCase(LG, winners_of(LG))
    /\ (last.op = "determine_winner" /\ WolvesInPlay(LG)
            /\ ~TannerExecuted(LG)) =>
        WolvesCase(LG, LG.winners)

C5_Witness ==
    /\ last.op = "determine_winner"
    /\ WolvesInPlay(LG) /\ ~TannerExecuted(LG) /\ ~WolfExecuted(LG)
    /\ LG.executed_player_ids # <<>>
    /\ LG.winners = <<"WEREWOLF">>

NoWolvesCase(g, w) ==
    /\ g.executed_player_ids = <<>> => w = <<"VILLAGE", "WEREWOLF", "TANNER">>
    /\ g.executed_player_ids # <<>> => w = <<"TANNER">>

\* C6: with no wolf in play, no execution gives [Village, Werewolf, Tanner]
\* and one or more executions give [Tanner], even when nobody holds the
\* Tanner role.
C6_NoWolvesInPlay ==
    /\ (Resolving(LG) /\ ~WolvesInPlay(LG)) => NoWolvesCase(LG, winners_of(LG))
    /\ (last.op = "determine_winner" /\ ~WolvesInPlay(LG)) =>
        NoWolvesCase(LG, LG.winners)

C6_Witness ==
    /\ last.op = "determine_winner"
    /\ ~WolvesInPlay(LG)
    /\ LG.executed_player_ids # <<>>
    /\ \A u \in PlayerIds(LG) : LG.players[u].current_role # "TANNER"
    /\ LG.winners = <<"TANNER">>

RECURSIVE SumOver(_, _)
SumOver(f, S) ==
    IF S = {} THEN 0
    ELSE LET x == CHOOSE y \in S : TRUE IN f[x] + SumOver(f, S \ {x})

Voted(g) == {u \in PlayerIds(g) : g.players[u].vote_target_id # None}

\* C7: calculate_votes has an entry for every player and for -1, each entry
\* is 2 per Mayor (current role) and 1 per other voter who voted for it, and
\* the entries sum to the weights of the players who have voted.
C7_VoteWeight ==
    LG.phase \in {"VOTING", "ENDED"} =>
        LET vote_counts == calculate_votes(LG)
            weight == [u \in PlayerIds(LG) |->
                        IF LG.players[u].current_role = "MAYOR" THEN 2 ELSE 1]
        IN /\ DOMAIN vote_counts = PlayerIds(LG) \cup {PEACE}
           /\ \A t \in DOMAIN vote_counts : vote_counts[t] = Tally(LG, t)
           /\ SumOver(vote_counts, DOMAIN vote_counts)
                = SumOver(weight, Voted(LG))

\* a Mayor by swap has voted for a player, who has 2 votes from that alone
C7_Witness ==
    /\ last.op = "determine_execution"
    /\ \E u \in PlayerIds(LG) :
        /\ LG.players[u].current_role = "MAYOR"
        /\ LG.players[u].initial_role = "THIEF"
        /\ LG.players[u].vote_target_id \in PlayerIds(LG)
        /\ Voters(LG, LG.players[u].vote_target_id) = {u}
        /\ calculate_votes(LG)[LG.players[u].vote_target_id] = 2

ThiefTurn(g) == g.phase = "NIGHT" /\ g.night_action_index = 2

Swapped(g) ==
    {u \in PlayerIds(g) : g.players[u].current_role # g.players[u].initial_role}

\* C8: a successful swap exchanges the current roles of the Thief and the
\* target and changes no other current role, no initial role and no center
\* card; a skip changes no current role.
C8_ThiefSwap ==
    /\ ThiefTurn(LG) =>
        \A s \in PlayerIds(LG) \cup {UnknownId},
           t \in PlayerIds(LG) \cup {None, UnknownId} :
            LET r == process_thief_action(LG, s, t)
            IN /\ \A u \in PlayerIds(LG) :
                    r.g.players[u].initial_role = LG.players[u].initial_role
               /\ r.g.center_cards = LG.center_cards
               /\ t = None =>
                    \A u \in PlayerIds(LG) :
                        r.g.players[u].current_role = LG.players[u].current_role
               /\ r.ret # NoRole =>
                    /\ s \in PlayerIds(LG) /\ t \in PlayerIds(LG)
                    /\ r.ret = LG.players[t].current_role
                    /\ r.g.players[s].current_role = LG.players[t].current_role
                    /\ r.g.players[t].current_role = LG.players[s].current_role
                    /\ \A u \in PlayerIds(LG) \ {s, t} :
                        r.g.players[u].current_role = LG.players[u].current_role
               /\ (s \in PlayerIds(LG) /\ t \in PlayerIds(LG) \ {s}
                        /\ LG.players[s].initial_role = "THIEF") =>
                    r.ret # NoRole
    /\ (ThiefTurn(LG) /\ last.op = "process_thief_action") =>
        /\ last.ret # NoRole => Cardinality(Swapped(LG)) = 2
        /\ (\E u \in PlayerIds(LG) :
                LG.players[u].night_action.action_type = "THIEF_SKIP") =>
            Swapped(LG) = {}

C8_Witness ==
    /\ ThiefTurn(LG)
    /\ last.op = "process_thief_action" /\ last.ret = "WEREWOLF"
    /\ \E s, t \in PlayerIds(LG) :
        /\ Swapped(LG) = {s, t}
        /\ LG.players[s].initial_role = "THIEF"
        /\ LG.players[s].current_role = "WEREWOLF"
        /\ LG.players[t].initial_role = "WEREWOLF"
        /\ LG.players[t].current_role = "THIEF"

\* C9: register_vote refuses a second vote, a vote for oneself and a vote for
\* an identifier no player has, and then changes no field of any player.
C9_VoteRefused ==
    LG.phase = "VOTING" =>
        \A v \in PlayerIds(LG),
           t \in PlayerIds(LG) \cup {PEACE, UnknownId} :
            (\/ LG.players[v].vote_target_id # None
             \/ t = v
             \/ t \notin PlayerIds(LG)) =>
                LET r == register_vote(LG, v, t)
                IN r.ret = FALSE /\ r.g = LG

C9_Witness ==
    /\ LG.phase = "VOTING"
    /\ last.op = "register_vote" /\ last.ret = "False"
    /\ \E v \in PlayerIds(LG) : LG.players[v].vote_target_id \in PlayerIds(LG)

NightFields(g) ==
    [u \in PlayerIds(g) |->
        <<g.players[u].current_role, g.players[u].night_action,
          g.players[u].has_acted>>]

\* the request of s to view or to swap with t fails a validation
Invalid(g, s, t, role) ==
    \/ s \notin PlayerIds(g)
    \/ t \notin PlayerIds(g)
    \/ s = t
    \/ g.players[s].initial_role # role

\* C34: a Seer's view of a player and a Thief's swap that fail a validation
\* (requester not dealt the role, unknown target, requester as target)
\* return no role and leave every player's current role, night action and
\* has-acted flag as they were; a request that passes returns the target's
\* current role and records the action
C34_AllOrNothing ==
    \A s \in PlayerIds(LG) \cup {UnknownId},
       t \in PlayerIds(LG) \cup {UnknownId} :
        LET v == process_seer_action_player(LG, s, t)
            w == process_thief_action(LG, s, t)
        IN /\ Invalid(LG, s, t, "SEER") =>
                v.ret = NoRole /\ NightFields(v.g) = NightFields(LG)
           /\ Invalid(LG, s, t, "THIEF") =>
                w.ret = NoRole /\ NightFields(w.g) = NightFields(LG)
           /\ ~Invalid(LG, s, t, "SEER") =>
                /\ v.ret = LG.players[t].current_role
                /\ v.g.players[s].has_acted
                /\ v.g.players[s].night_action.target_player_id = t
           /\ ~Invalid(LG, s, t, "THIEF") =>
                /\ w.ret = LG.players[t].current_role
                /\ w.g.players[s].has_acted
                /\ w.g.players[s].night_action.target_player_id = t

\* a view was declined during the Seers' turn: the Seer has still to act and
\* no view is recorded
C34_Witness ==
    /\ LG.phase = "NIGHT" /\ LG.night_action_index = 1
    /\ last.op = "process_seer_action_player" /\ last.ret = NoRole
    /\ \E s \in PlayerIds(LG) :
        LG.players[s].initial_role = "SEER" /\ ~LG.players[s].has_acted
    /\ \A u \in PlayerIds(LG) :
        LG.players[u].night_action.action_type
            \notin {"SEER_PLAYER", "SEER_CENTER"}

\* C35 as stated: register_vote with the target -1, by a player who has not
\* voted, succeeds, records -1 and adds the voter's weight to the -1 entry
C35_PeaceRegistered ==
    LG.phase = "VOTING" =>
        \A v \in PlayerIds(LG) :
            LG.players[v].vote_target_id = None =>
                LET r == register_vote(LG, v, PEACE)
                IN /\ r.ret
                   /\ r.g.players[v].vote_target_id = PEACE
                   /\ calculate_votes(r.g)[PEACE] =
                        calculate_votes(LG)[PEACE]
                            + vote_power(LG.players[v].current_role)

\* C35: register_vote refuses the target -1 as it refuses any identifier no
\* player has and records nothing; a vote of -1 written to the player
\* directly is counted by the tally under the -1 entry with the voter's
\* weight
C35_PeaceBypass ==
    LG.phase = "VOTING" =>
        /\ \A v \in PlayerIds(LG) \cup {UnknownId} :
                register_vote(LG, v, PEACE) = [ret |-> FALSE, g |-> LG]
        /\ calculate_votes(LG)[PEACE] = Tally(LG, PEACE)
        /\ last.op = "peace_vote" => calculate_votes(LG)[PEACE] >= 1

\* a Mayor's vote of -1, written directly, counts 2 under the -1 entry
C35_Witness ==
    /\ LG.phase = "VOTING"
    /\ last.op = "peace_vote"
    /\ \E v \in PlayerIds(LG) :
        /\ Voters(LG, PEACE) = {v}
        /\ LG.players[v].current_role = "MAYOR"
    /\ calculate_votes(LG)[PEACE] = 2

\* how many players hold role r as their current role, as their dealt role
CurrentCount(g, r) ==
    Cardinality({u \in PlayerIds(g) : g.players[u].current_role = r})

InitialCount(g, r) ==
    Cardinality({u \in PlayerIds(g) : g.players[u].initial_role = r})

\* C39: between the deal and the soft reset no step changes how many
\* players hold each role as their current role, nor the two center cards;
\* the current roles are a permutation of the dealt ones, and a wolf is in
\* play by current roles exactly if a player was dealt a wolf
C39_RolesConserved ==
    [][LET g == LG
           h == objs'[1]
       IN /\ (g.phase # "WAITING" /\ h.phase # "WAITING") =>
                /\ \A r \in Roles : CurrentCount(h, r) = CurrentCount(g, r)
                /\ h.center_cards = g.center_cards
          /\ h.phase # "WAITING" =>
                /\ \A r \in Roles : CurrentCount(h, r) = InitialCount(h, r)
                /\ Len(h.center_cards) = CENTER_CARD_COUNT
                /\ has_wolves_in_game(h) <=>
                     \E u \in PlayerIds(h) :
                        is_wolf_role(h.players[u].initial_role)]_vars

\* the winner was determined after the Thief took the only wolf's card: the
\* wolf in play is held by the player dealt the Thief
C39_Witness ==
    /\ last.op = "determine_winner"
    /\ \E s, t \in PlayerIds(LG) :
        /\ LG.players[s].initial_role = "THIEF"
        /\ is_wolf_role(LG.players[s].current_role)
        /\ is_wolf_role(LG.players[t].initial_role)
        /\ LG.players[t].current_role = "THIEF"
    /\ \A r \in {"WEREWOLF", "ALPHA_WOLF"} : CurrentCount(LG, r) <= 1
    /\ has_wolves_in_game(LG)

-----------------------------------------------------------------------------
(* Properties of bot.py's coroutines, checked under Spec *)

\* C10: once a player's vote target is set it is not changed by any later
\* step of any coroutine, until reset_game_keep_players clears it at the end
\* of the round
C10_VoteKept ==
    [][\A k \in 1..Len(objs) : \A u \in DOMAIN objs[k].players :
         LET old == objs[k].players[u].vote_target_id
             new == objs'[k].players[u].vote_target_id
         IN (old # None /\ new # old)
                => objs'[k] = reset_game_keep_players(objs[k])]_vars

\* the end_voting_phase coroutines suspended between determine_execution and
\* the soft reset of the GameState objs[k]
Resolutions(k) ==
    {t \in BagToSet(tasks) :
        t.g = k /\ t.pc \in {"revenge", "results", "winner"}}

\* C11: end-of-round resolution runs once for a round: a step that passes
\* end_voting_phase's ENDED test and determines the execution is taken only
\* while no other resolution of that GameState is between its
\* determine_execution and its soft reset
C11_ResolvedOnce ==
    [][\A k \in 1..Len(objs) :
         (objs[k].phase # "ENDED" /\ objs'[k].phase = "ENDED")
            => Resolutions(k) = {}]_vars

\* the players of h whose night action is newly recorded, or recorded anew,
\* as one of kinds by the step from g to h
NewlyActed(g, h, kinds) ==
    {u \in PlayerIds(g) \cap PlayerIds(h) :
        /\ h.players[u].night_action # g.players[u].night_action
        /\ h.players[u].night_action.action_type \in kinds}

SeerKinds == {"SEER_PLAYER", "SEER_CENTER"}
ThiefKinds == {"THIEF_SWAP", "THIEF_SKIP"}

\* every player dealt role has acted
CohortActed(g, role) ==
    \A u \in PlayerIds(g) :
        g.players[u].initial_role = role => g.players[u].has_acted

\* C12: the night resolves in the order Werewolf, Seer, Thief: a Seer's view
\* is recorded only during Night and before any Thief action of the round, a
\* Thief's action is recorded only during Night and after every Seer has
\* acted, and Discussion begins only after every Seer and Thief has acted
C12_NightOrder ==
    [][\A k \in 1..Len(objs) :
         LET g == objs[k]
             h == objs'[k]
         IN /\ NewlyActed(g, h, SeerKinds) # {} =>
                  /\ g.phase = "NIGHT"
                  /\ \A u \in PlayerIds(g) :
                        g.players[u].night_action.action_type \notin ThiefKinds
            /\ NewlyActed(g, h, ThiefKinds) # {} =>
                  g.phase = "NIGHT" /\ CohortActed(g, "SEER")
            /\ (g.phase # "DISCUSSION" /\ h.phase = "DISCUSSION") =>
                  CohortActed(g, "SEER") /\ CohortActed(g, "THIEF")]_vars

\* C27: when the discussion of a round begins the night cursor has been
\* advanced once per role of the night order and equals the order's length
C27_CursorAtDay ==
    \A k \in 1..Len(objs) :
        objs[k].phase = "DISCUSSION" =>
            objs[k].night_action_index = Len(objs[k].night_action_order)

\* the step from g to h is the swap of a player dealt the Thief
ThiefSwapStep(g, h) ==
    \E s, t \in PlayerIds(g) :
        /\ s # t
        /\ g.players[s].initial_role = "THIEF"
        /\ h = process_thief_action(g, s, t).g

\* C31: a player's initial role is written only by the role distribution
\* that takes the round from Waiting to Night and by the soft reset, and a
\* player's current role is otherwise changed only by a Thief's swap
C31_RolesFixed ==
    [][\A k \in 1..Len(objs) : \A u \in DOMAIN objs[k].players :
         LET g == objs[k]
             h == objs'[k]
             Distributed == g.phase = "WAITING" /\ h.phase = "NIGHT"
             SoftReset == g.phase # "WAITING" /\ h.phase = "WAITING"
         IN u \in DOMAIN h.players =>
              /\ h.players[u].initial_role # g.players[u].initial_role =>
                    Distributed \/ SoftReset
              /\ h.players[u].current_role # g.players[u].current_role =>
                    Distributed \/ SoftReset \/ ThiefSwapStep(g, h)]_vars

\* C38: a Thief's swap is applied only once every Seer has acted, the role a
\* Seer's view of a player returns is the role that player was dealt, and
\* the center cards are those of the deal until the soft reset
C38_SeerSeesDealt ==
    [][\A k \in 1..Len(objs) :
         LET g == objs[k]
             h == objs'[k]
         IN /\ NewlyActed(g, h, {"THIEF_SWAP"}) # {} => CohortActed(g, "SEER")
            /\ \A s \in NewlyActed(g, h, {"SEER_PLAYER"}) :
                  LET t == h.players[s].night_action.target_player_id
                  IN g.players[t].current_role = g.players[t].initial_role
            /\ h.center_cards # g.center_cards =>
                  g.phase = "WAITING" \/ h.phase = "WAITING"]_vars

-----------------------------------------------------------------------------
(* Properties of the registry and the roster, checked under LobbySpec and   *)
(* RosterSpec                                                               *)

\* the round of objs[k] is in progress: it has left Waiting and a coroutine
\* of its orchestration is still suspended on it
InProgress(k) ==
    /\ objs[k].phase \in {"NIGHT", "DISCUSSION", "VOTING", "ENDED"}
    /\ \E t \in BagToSet(tasks) : t.g = k

\* C13: at most one round of the channel is in progress at a time; a round
\* whose registry entry was deleted or replaced does not stay in progress
\* next to a newly started one
C13_OneRound ==
    \A j, k \in 1..Len(objs) : (InProgress(j) /\ InProgress(k)) => j = k

\* the coroutines suspended in process_hunter_revenge on objs[k]
Revenges(k) == {t \in BagToSet(tasks) : t.g = k /\ t.pc = "revenge"}

\* C17: within the end of a round, the winners are determined after every
\* executed Hunter's revenge, from the ended round's executed list and its
\* dealt roles, and the soft reset comes only after the winners are determined
C17_EndOrder ==
    [][\A k \in 1..Len(objs) :
         LET g == objs[k]
             h == objs'[k]
         IN /\ (g.winners = <<>> /\ h.winners # <<>>) =>
                  /\ g.phase = "ENDED"
                  /\ Revenges(k) = {}
                  /\ g.center_cards # <<>>
                  /\ h = determine_winner(g)
            /\ (g.phase = "ENDED" /\ h.phase = "WAITING") =>
                  g.winners # <<>>]_vars

\* the composition begin resolves for g: the custom one if set, else the
\* default for the roster size
EffectiveComposition(g) ==
    IF g.custom_role_config # NoConfig THEN g.custom_role_config
    ELSE ROLE_CONFIG(player_count(g))

\* C14: a round is moved to Night only from Waiting, with a roster of 3 to 8
\* players and a defined composition of roster size + 2 cards
C14_BeginGuard ==
    [][\A k \in 1..Len(objs) :
         (objs[k].phase # "NIGHT" /\ objs'[k].phase = "NIGHT") =>
            /\ objs[k].phase = "WAITING"
            /\ player_count(objs[k]) >= MIN_PLAYERS
            /\ player_count(objs[k]) <= MAX_PLAYERS
            /\ EffectiveComposition(objs[k]) # NoConfig
            /\ Len(EffectiveComposition(objs[k]))
                  = player_count(objs[k]) + CENTER_CARD_COUNT]_vars

\* C15: no GameState ever holds more than MAX_PLAYERS players, and a roster
\* grows only in phase Waiting, from below MAX_PLAYERS and not beyond it
C15_RosterBound ==
    [][/\ \A k \in 1..Len(objs') : player_count(objs'[k]) <= MAX_PLAYERS
       /\ \A k \in 1..Len(objs) :
            player_count(objs'[k]) > player_count(objs[k]) =>
                /\ objs[k].phase = "WAITING"
                /\ player_count(objs[k]) < MAX_PLAYERS]_vars

\* a full roster in Waiting, seven AI players added, with a user who has not
\* joined: the next join and add_bot are the rejected ones
C15_Witness ==
    /\ registry # NoGame
    /\ objs[registry].phase = "WAITING"
    /\ player_count(objs[registry]) = MAX_PLAYERS
    /\ BotsEnrolled = MAX_ADD
    /\ \E u \in Humans : u \notin PlayerIds(objs[registry])

\* C36: a begin handler that has passed its checks distributes the roles
\* while the round is still in Waiting (no other distribution has run in the
\* round), with a role list of roster size + 2 cards at that moment, and the
\* distribution takes the round to Night
C36_BeginAtomic ==
    [][\A t \in BagToSet(tasks) :
         (t.kind = "begin" /\ t.pc = "begin_send"
              /\ CopiesIn(t, tasks') < CopiesIn(t, tasks)) =>
            /\ objs[t.g].phase = "WAITING"
            /\ Len(t.roles) = player_count(objs[t.g]) + CENTER_CARD_COUNT
            /\ objs'[t.g].phase = "NIGHT"]_vars

\* the identifiers a round has recorded on g: the executed players, the
\* players voted for and the targets of the night actions
RecordedIds(g) ==
    SeqToSet(g.executed_player_ids)
        \cup ({g.players[u].vote_target_id : u \in PlayerIds(g)}
                \ {None, PEACE})
        \cup ({g.players[u].night_action.target_player_id : u \in PlayerIds(g)}
                \ {None})

\* C40: a step changes the roster of a GameState only while its phase is
\* Waiting, and outside Waiting every executed identifier, vote target and
\* night-action target is the identifier of an enrolled player
C40_RosterFrozen ==
    [][\A k \in 1..Len(objs) :
         /\ PlayerIds(objs'[k]) # PlayerIds(objs[k]) =>
               objs[k].phase = "WAITING"
         /\ objs'[k].phase # "WAITING" =>
               RecordedIds(objs'[k]) \subseteq PlayerIds(objs'[k])]_vars

-----------------------------------------------------------------------------
(* Properties of call_grok_api, checked under ApiSpec *)

AllIn(seq, S) == \A j \in 1..Len(seq) : seq[j] \in S

\* C20: a call with the default max_retries whose attempts all fail at the
\* transport level returns no result after exactly 3 attempts with waits of
\* 1 and 2 seconds; an attempt answered with an HTTP error status is the
\* call's last, and when it is the first the call returns no result after
\* exactly 1 attempt and no wait
C20_RetryPolicy ==
    \A c \in Calls :
        /\ (/\ c.pc = "returned" /\ c.max_retries = DEFAULT_MAX_RETRIES
            /\ c.outcomes # <<>> /\ AllIn(c.outcomes, TransportErrors)) =>
                /\ Len(c.outcomes) = 3
                /\ c.waits = <<1, 2>>
                /\ c.ret = "None"
        /\ \A j \in 1..Len(c.outcomes) :
              c.outcomes[j] \in HttpErrors =>
                /\ j = Len(c.outcomes)
                /\ c.pc = "returned"
                /\ c.ret = "None"
                /\ j = 1 => c.waits = <<>>

\* one call returned after three transport failures and another after an
\* HTTP error status on its first attempt
C20_Witness ==
    /\ \E c \in Calls :
        /\ c.pc = "returned" /\ c.max_retries = DEFAULT_MAX_RETRIES
        /\ Len(c.outcomes) = 3 /\ AllIn(c.outcomes, TransportErrors)
    /\ \E c \in Calls :
        /\ c.pc = "returned" /\ c.max_retries = DEFAULT_MAX_RETRIES
        /\ Len(c.outcomes) = 1 /\ c.outcomes[1] \in HttpErrors

\* C21: a call of call_grok_api that is over has handed its caller a text or
\* no result, whatever client.post ended in: no exception leaves the call
C21_NeverRaises ==
    \A c \in Calls : c.pc = "returned" => c.ret \in {"content", "None"}

-----------------------------------------------------------------------------
(* Properties of llm_vote, checked under VoteSpec *)

\* the player was dealt the Tanner, or was dealt the Thief, swapped at night
\* and holds the Tanner now
TakesItselfForTanner(player) ==
    \/ player.initial_role = "TANNER"
    \/ /\ player.initial_role = "THIEF"
       /\ player.night_action.action_type = "THIEF_SWAP"
       /\ player.current_role = "TANNER"

\* C23: llm_vote for a player dealt the Tanner, or a Thief who swapped into
\* the Tanner, returns -1 and does not call the API
C23_TannerVote ==
    last.op = "llm_vote" =>
        (TakesItselfForTanner(LG.players[last.ret.voter])
            => ~last.ret.api /\ last.ret.ret = PEACE)

\* llm_vote has returned for a Thief who swapped into the Tanner
C23_Witness ==
    /\ last.op = "llm_vote"
    /\ LG.players[last.ret.voter].initial_role = "THIEF"
    /\ LG.players[last.ret.voter].current_role = "TANNER"
    /\ LG.players[last.ret.voter].night_action.action_type = "THIEF_SWAP"
    /\ last.ret.ret = PEACE

-----------------------------------------------------------------------------
(* Properties of the Hunter's revenge, checked under RevengeSpec *)

\* C29: when the winners are determined every player of the executed list
\* whose current role is Hunter has been prompted for a revenge
C29_RevengeCoverage ==
    last.op = "determine_winner" =>
        \A i \in 1..Len(LG.executed_player_ids) :
            LG.players[LG.executed_player_ids[i]].current_role = "HUNTER"
                => LG.executed_player_ids[i] \in last.ret.prompted

\* the executed list of g holds no identifier twice, only players of the
\* roster, and not -1
ExecutedWellFormed(g) ==
    /\ \A i, j \in 1..Len(g.executed_player_ids) :
        i # j => g.executed_player_ids[i] # g.executed_player_ids[j]
    /\ \A i \in 1..Len(g.executed_player_ids) :
        /\ g.executed_player_ids[i] \in PlayerIds(g)
        /\ g.executed_player_ids[i] # PEACE

\* C30: a revenge target already in the executed list is not added again
\* and the append returns False, a target not yet in it is appended; the
\* executed list never holds an identifier twice, an identifier that is not
\* a player's, or -1
C30_RevengeAppend ==
    [][/\ ExecutedWellFormed(LG')
       /\ (/\ last'.op = "process_hunter_revenge"
           /\ last'.ret.prompted # Prompted
           /\ last'.ret.target # None)
          => IF last'.ret.target \in SeqToSet(LG.executed_player_ids)
             THEN /\ LG'.executed_player_ids = LG.executed_player_ids
                  /\ ~last'.ret.appended
             ELSE /\ LG'.executed_player_ids =
                        Append(LG.executed_player_ids, last'.ret.target)
                  /\ last'.ret.appended]_vars

\* a Hunter has named a player who was in the executed list already
C30_Witness ==
    /\ last.op = "process_hunter_revenge"
    /\ last.ret.target # None
    /\ ~last.ret.appended
    /\ last.ret.target \in SeqToSet(LG.executed_player_ids)

-----------------------------------------------------------------------------
(* Properties of add_bot, checked under PersonaSpec *)

\* C24: the players of a roster have pairwise different names: no persona
\* is given to two AI players, none bears the name of a player enrolled
\* before it
C24_DistinctNames ==
    \A u, v \in PlayerIds(LG) :
        u # v => LG.players[u].username # LG.players[v].username

\* C25: an accepted add_bot with count k leaves the roster with exactly k
\* more players, the new ones under negative identifiers, and every player
\* enrolled before as it was
C25_AddsCount ==
    last.op = "add_bot" =>
        LET before == last.ret.game
            new == PlayerIds(LG) \ PlayerIds(before)
        IN /\ player_count(LG) = player_count(before) + last.ret.count
           /\ Cardinality(new) = last.ret.count
           /\ \A u \in new : u < 0
           /\ \A u \in PlayerIds(before) :
                u \in PlayerIds(LG) /\ LG.players[u] = before.players[u]

-----------------------------------------------------------------------------
(* Properties of RoleConfigView, checked under RoleSpec *)

EditorControls == {"add", "remove", "reset", "done"}

\* the press that leads to last': by another user than the host, or of
\* Done with a total other than the number of players + 2
PressRefused ==
    \/ last'.ret.user # LG.host_id
    \/ /\ last'.op = "done"
       /\ Len(IF LG.custom_role_config # NoConfig
              THEN LG.custom_role_config
              ELSE ROLE_CONFIG(Len(LG.order))) # Len(LG.order) + 2

\* C26: a press of Done with a wrong total, and any press by another user
\* than the host, changes neither the GameState nor the view: the custom
\* composition is kept and the editor stays open
C26_EditorRejects ==
    [][(/\ last'.op \in EditorControls
        /\ last'.ret.nth # Commands
        /\ PressRefused) => (objs' = objs /\ tasks' = tasks)]_vars

\* the host has pressed Done with a wrong total and the view is open
C26_Witness ==
    /\ last.op = "done"
    /\ last.ret.user = LG.host_id
    /\ LG.custom_role_config # NoConfig
    /\ Len(LG.custom_role_config) # Len(LG.order) + 2
    /\ \E v \in Views : v.pc = "open"

\* C37: the custom role composition of a GameState is changed only by a step
\* taken while its phase is Waiting
C37_EditInWaiting ==
    [][\A k \in 1..Len(objs) :
         objs'[k].custom_role_config # objs[k].custom_role_config =>
            objs[k].phase = "WAITING"]_vars

-----------------------------------------------------------------------------
(* Properties of the rate limit, checked under RateSpec *)

\* C22: any two calls of client.post are at least API_CALL_INTERVAL seconds
\* apart, whichever calls of call_grok_api make them
C22_Spaced ==
    \A i, j \in 1..Len(llm.posts) :
        i < j => llm.posts[j] - llm.posts[i] >= API_CALL_INTERVAL

-----------------------------------------------------------------------------
(* Properties of the round's progress, checked under FairSpec *)

\* the k-th GameState exists and is in phase p
PhaseIs(k, p) == k <= Len(objs) /\ objs[k].phase = p

\* C18: with the AI players' actions resolved by their fallbacks and every
\* human answering, a round that is in Night eventually returns to Waiting
C18_RoundEnds ==
    \A k \in 1..MaxGames : PhaseIs(k, "NIGHT") ~> PhaseIs(k, "WAITING")

\* the speech coroutines in flight on objs[k]
Speaking(k) == {t \in BagToSet(tasks) : t.g = k /\ t.kind \in SpeechKinds}

\* C19: a round that is in Discussion eventually is in Voting, whatever the
\* players say and whatever speech coroutines are in flight
C19_DiscussionEnds ==
    \A k \in 1..MaxGames : PhaseIs(k, "DISCUSSION") ~> PhaseIs(k, "VOTING")

\* the vote opened after a discussion that filled the history, with a speech
\* coroutine still in flight
C19_Witness ==
    \E k \in 1..Len(objs) :
        /\ objs[k].phase = "VOTING"
        /\ Len(objs[k].discussion_history) = MaxHistory
        /\ Speaking(k) # {}

-----------------------------------------------------------------------------
(* Properties of the speech coroutines, checked under SpeechSpec *)

\* C32: an AI player's utterance is appended to the discussion history, and
\* its post is begun, only in a step taken while the phase is Discussion
C32_SpeechInDiscussion ==
    [][\A k \in 1..Len(objs) :
         LET g == objs[k]
             h == objs'[k]
             n == Len(h.discussion_history)
         IN /\ (n > Len(g.discussion_history)
                    /\ is_llm(h.discussion_history[n])) =>
                  g.phase = "DISCUSSION" /\ h.phase = "DISCUSSION"
            /\ \A t \in BagToSet(tasks') :
                  (t.g = k /\ t.kind \in SpeechKinds /\ t.pc = "sent"
                        /\ CopiesIn(t, tasks') > CopiesIn(t, tasks)) =>
                     g.phase = "DISCUSSION"]_vars

\* the remote API returned a text to a speech coroutine after the vote had
\* opened, and the text was dropped
C32_Witness ==
    /\ last.op \in SpeechKinds
    /\ last.ret.step = "api" /\ last.ret.response = "text"
    /\ ~last.ret.said
    /\ objs[1].phase = "VOTING"
    /\ \A i \in 1..Len(objs[1].discussion_history) :
        ~is_llm(objs[1].discussion_history[i])

\* C33: after a run of the round-robin loop that ends an iteration the
\* cursor is one past the iteration's speaker if the utterance was made and
\* at the iteration's speaker if the API produced no text; a run that the
\* cooldown skips and a run of mention-triggered speech leave the cursor
\* where it was
C33_CursorPerUtterance ==
    LET cursor == llm.next_llm_speaker_index
        n == Len(get_llm_players(objs[1]))
    IN last.op \in SpeechKinds =>
        /\ last.op = "trigger_llm_discussion_for_player" =>
              cursor = last.ret.index
        /\ last.ret.skipped => cursor = last.ret.index
        /\ (last.op = "auto_llm_speak_loop" /\ last.ret.step = "api") =>
              cursor = IF last.ret.said
                       THEN (last.ret.current_index + 1) % n
                       ELSE last.ret.current_index

====
